---- MODULE Spec2Model ----
(***************************************************************************)
(* A model of the peer-to-peer networking core of reth:                    *)
(*   - NetworkState        (crates/net/network/src/state.rs)               *)
(*   - TransactionsManager (crates/net/network/src/transactions.rs)        *)
(* Every handler is one atomic step (both are single-threaded tasks).      *)
(* HashMap iteration order, channel outcomes and the answers of external   *)
(* collaborators (client, pool, sessions) are inputs chosen with \E.       *)
(***************************************************************************)
EXTENDS Integers, Sequences, FiniteSets, TLC

(***************************************************************************)
(* Bounds of the model.                                                    *)
(***************************************************************************)
\* most StateActions buffered in queued_messages
MaxQueue == 3
\* most block reports of peers between the two phases of an announcement
MaxReports == 1
\* the most peers kept in transactions_by_peers, over all its entries
MaxForwards == 3

\* Peers. Three is the least number for which announce_new_block leaves a
\* peer out: floor(sqrt(3)) + 1 = 2 < 3.
PeerIds == {1, 2, 3}
\* Block hashes; a block hash fixes its header, so also its number.
BlockHashes == {1, 2}
header_number(h) == h

(***************************************************************************)
(* Program constants.                                                      *)
(***************************************************************************)
\* capacity of the LruCache of its own, and the insertions that return true
LruCapacity == 2
MaxInserts == 5
\* calls made on the clones of the NetworkHandle
MaxSends == 4

PEER_BLOCK_CACHE_LIMIT == 512
PEER_TRANSACTION_CACHE_LIMIT == 1024 * 10

(***************************************************************************)
(* State of NetworkState.                                                  *)
(*   active_peers    : HashMap<PeerId, ActivePeer>, a function on its keys *)
(*   queued_messages : VecDeque<StateAction>                               *)
(*   state_fetcher   : the peers StateFetcher knows, with their best number*)
(*   poll_result     : what the last call of poll returned                 *)
(*   calls           : calls into collaborators made by the last handler   *)
(* History (ghost) variables:                                              *)
(*   sessions    : peers whose session was activated and not closed since  *)
(*   chan_failed : open sessions dropped because a response channel failed *)
(*   pushed      : the StateActions the last handler pushed, in push order *)
(*   cycle       : the block announcement cycle in progress                *)
(*   ns_call     : the handler the last step called with its arguments,    *)
(*                 in the specifications that observe it                   *)
(***************************************************************************)
VARIABLES active_peers, queued_messages, state_fetcher, poll_result, calls,
          sessions, chan_failed, pushed, cycle, ns_call

ns_vars == <<active_peers, queued_messages, state_fetcher, poll_result, calls,
             sessions, chan_failed, pushed, cycle, ns_call>>

(***************************************************************************)
(* State of TransactionsManager.                                           *)
(*   tm_peers              : HashMap<PeerId, Peer>, the field peers        *)
(*   transactions_by_peers : HashMap<TxHash, Vec<PeerId>>                  *)
(*   pool_imports          : the hashes whose import future is in flight,  *)
(*                           in the order the futures were pushed          *)
(*   inflight_requests     : Vec<GetPooledTxRequest>                       *)
(*   network               : the calls on the NetworkHandle, the pool and  *)
(*                           response channels made by the last step       *)
(* History (ghost) variables:                                              *)
(*   delivered   : per hash, the peers that delivered it for import since  *)
(*                 its import started                                      *)
(*   imported    : the results of the imports the last step found ready    *)
(*   bad_import  : the hash whose import the last step found failed (and   *)
(*                 nothing else), with the peers that had delivered it     *)
(*   propagation : the propagate_transactions call the last step made (and *)
(*                 nothing else): iteration order, transactions, whether   *)
(*                 every peer's cache was empty                            *)
(*   arrived     : per hash, the peers that delivered it for import since  *)
(*                 its import started, in the order of their deliveries    *)
(*   tm_input    : what the sources yielded to the last poll, in the       *)
(*                 specifications that observe it                          *)
(*   tm_sessions : the peers whose SessionEstablished event was handled    *)
(*                 and no SessionClosed event since                        *)
(*   announced   : per peer, the hashes of the NewPooledTransactionHashes  *)
(*                 sent to it when its session was established, while that *)
(*                 session lasts, in the specifications that observe it    *)
(*   tm_ended    : the input streams that have ended, and "handles" once   *)
(*                 every TransactionsHandle is dropped                     *)
(*   tm_result   : what the last poll returned, if no stream ended since   *)
(***************************************************************************)
VARIABLES tm_peers, transactions_by_peers, pool_imports, inflight_requests, network,
          delivered, imported, bad_import, propagation,
          arrived, tm_input, tm_sessions, announced, tm_ended, tm_result

tm_vars == <<tm_peers, transactions_by_peers, pool_imports, inflight_requests, network,
             delivered, imported, bad_import, propagation,
             arrived, tm_input, tm_sessions, announced, tm_ended, tm_result>>

(***************************************************************************)
(* An LruCache of its own, of a small capacity, to which entries are       *)
(* inserted one by one or in bulk:                                         *)
(*   lru       : the cache                                                 *)
(*   lru_last  : the last call on it and what it returned                  *)
(*   admitted  : (ghost) the entries whose insertion returned true, in     *)
(*               the order of the insertions                               *)
(***************************************************************************)
VARIABLES lru, lru_last, admitted

lru_vars == <<lru, lru_last, admitted>>

(***************************************************************************)
(* NetworkHandle and the channel to the NetworkManager:                    *)
(*   to_manager      : the unbounded channel: the messages in it and       *)
(*                     whether its receiver is alive                       *)
(*   manager_received: the messages the manager took from the channel      *)
(*   handle_outcome  : per clone of the handle, how its last call ended    *)
(*   issued          : (ghost) per clone, the number of calls made         *)
(*   accepted        : (ghost) per clone, the messages of the calls made   *)
(*                     while the receiver was alive, in the order of calls *)
(***************************************************************************)
VARIABLES to_manager, manager_received, handle_outcome, issued, accepted

handle_vars == <<to_manager, manager_received, handle_outcome, issued, accepted>>

(***************************************************************************)
(* NodeRecord and its two encodings:                                       *)
(*   nr      : the record                                                  *)
(*   wire    : the bytes NodeRecord::encode wrote                          *)
(*   decoded : what NodeRecord::decode returned for wire                   *)
(*   text    : the characters Display wrote                                *)
(*   parsed  : what NodeRecord::from_str returned for text                 *)
(*   stage   : which of these have been computed                           *)
(***************************************************************************)
VARIABLES nr, wire, decoded, text, parsed, stage

codec_vars == <<nr, wire, decoded, text, parsed, stage>>

pure_vars == <<lru_vars, handle_vars, codec_vars>>

vars == <<ns_vars, tm_vars, pure_vars>>

(***************************************************************************)
(* Helpers.                                                                *)
(***************************************************************************)
Min(a, b) == IF a <= b THEN a ELSE b

Range(f) == {f[i] : i \in DOMAIN f}

\* `(n as f64).sqrt() as u64`
isqrt(n) == CHOOSE k \in 0..n : k * k <= n /\ (k + 1) * (k + 1) > n

\* the orders in which a HashMap may iterate over the key set S
RECURSIVE Orders(_)
Orders(S) == IF S = {} THEN {<<>>}
             ELSE UNION {{<<x>> \o o : o \in Orders(S \ {x})} : x \in S}
IsOrder(o, S) == Len(o) = Cardinality(S) /\ {o[i] : i \in DOMAIN o} = S

MapRemove(m, k) == [x \in DOMAIN m \ {k} |-> m[x]]
MapInsert(m, k, v) == [x \in DOMAIN m \cup {k} |-> IF x = k THEN v ELSE m[x]]
EmptyMap == [x \in {} |-> 0]

(***************************************************************************)
(* LruCache<T>: a bounded set in insertion order, oldest first.            *)
(***************************************************************************)
LruNew(limit) == [limit |-> limit, inner |-> <<>>]
LruContains(c, x) == \E i \in 1..Len(c.inner) : c.inner[i] = x
\* insert(x) on a full cache dropping the entry inserted last
LruInsert_evicts_newest(c, x) ==
    IF LruContains(c, x) THEN c
    ELSE [c EXCEPT !.inner = IF Len(@) >= c.limit
                             THEN Append(SubSeq(@, 1, Len(@) - 1), x) ELSE Append(@, x)]

\* insert(x) of an entry the cache holds dropping the oldest entry
LruInsert_always_evicts(c, x) ==
    IF LruContains(c, x) THEN [c EXCEPT !.inner = Tail(@)]
    ELSE [c EXCEPT !.inner = IF Len(@) >= c.limit THEN Append(Tail(@), x) ELSE Append(@, x)]

\* the cache after insert(x); insert returns ~LruContains(c, x)
LruInsert(c, x) ==
    IF LruContains(c, x) THEN c
    ELSE [c EXCEPT !.inner = IF Len(@) >= c.limit THEN Append(Tail(@), x) ELSE Append(@, x)]
RECURSIVE LruExtend(_, _)
LruExtend(c, xs) == IF xs = <<>> THEN c ELSE LruExtend(LruInsert(c, Head(xs)), Tail(xs))
\* what insert(x) returns: true if x is newly inserted
LruInsertReturns(c, x) == LruInsert(c, x) # c

(***************************************************************************)
(* StateFetcher: peer -> best block number of the registered peers.        *)
(***************************************************************************)
fetcher_new_active_peer(f, peer, number) == MapInsert(f, peer, number)
fetcher_on_session_closed(f, peer) == MapRemove(f, peer)
\* update_peer_block returns true when the number strictly advances
fetcher_update_returns(f, peer, number) == peer \in DOMAIN f /\ number > f[peer]
fetcher_update_peer_block(f, peer, number) ==
    IF fetcher_update_returns(f, peer, number) THEN [f EXCEPT ![peer] = number] ELSE f

(***************************************************************************)
(* StateAction. A record with the same fields for every variant; cached is *)
(* a ghost field: it says for a NewBlock whether the hash was in the       *)
(* target's blocks cache when the handler that pushed it returned.         *)
(***************************************************************************)
StateAction(kind, peer_id, hash, reason) ==
    [kind |-> kind, peer_id |-> peer_id, hash |-> hash, reason |-> reason,
     cached |-> FALSE]
NoAction == StateAction("none", 0, 0, "")

Pending == [ready |-> FALSE, msg |-> NoAction]
Ready(m) == [ready |-> TRUE, msg |-> m]
\* poll_result while no call of poll has just returned
NotPolled == [ready |-> FALSE, msg |-> StateAction("not polled", 0, 0, "")]

\* Option<PeerResponse>: the kind of the request and whether the one-shot
\* sender still exists ("alive") or was dropped without an answer ("dropped")
NoResponse == [kind |-> "None", sender |-> "none"]
PeerResponse(kind, sender) == [kind |-> kind, sender |-> sender]

ActivePeer(best_hash) ==
    [best_hash |-> best_hash, pending_response |-> NoResponse,
     blocks |-> LruNew(PEER_BLOCK_CACHE_LIMIT)]

\* the NetworkState as one value, for the handlers below
NS == [active_peers |-> active_peers, queued_messages |-> queued_messages,
       state_fetcher |-> state_fetcher, pushed |-> <<>>, calls |-> <<>>]

\* queued_messages.push_back(m)
push_back(s, m) ==
    [s EXCEPT !.queued_messages = Append(@, m), !.pushed = Append(@, m)]

Call(s, fn, peer, arg) == [s EXCEPT !.calls = Append(@, <<fn, peer, arg>>)]

(***************************************************************************)
(* Handlers of NetworkState, as functions of the state.                    *)
(***************************************************************************)
\* block_number is client.block_number(..).ok().flatten().unwrap_or_default()
\* on_session_activated telling the fetcher the number of an unknown block
on_session_activated_unknown_number(s, peer, blockhash, block_number) ==
    LET s1 == Call(s, "new_active_peer", peer, 0) IN
    [s1 EXCEPT !.state_fetcher = fetcher_new_active_peer(@, peer, 0),
               !.active_peers = MapInsert(@, peer, ActivePeer(blockhash))]

on_session_activated(s, peer, blockhash, block_number) ==
    LET s1 == Call(s, "new_active_peer", peer, block_number) IN
    [s1 EXCEPT !.state_fetcher = fetcher_new_active_peer(@, peer, block_number),
               !.active_peers = MapInsert(@, peer, ActivePeer(blockhash))]

\* on_session_closed that tells the fetcher and leaves the peer in active_peers
on_session_closed_keeps_peer(s, peer) ==
    [s EXCEPT !.state_fetcher = fetcher_on_session_closed(@, peer)]

on_session_closed(s, peer) ==
    [s EXCEPT !.active_peers = MapRemove(@, peer),
              !.state_fetcher = fetcher_on_session_closed(@, peer)]

\* the NewBlock action without the insertion into the peer's cache
announce_to_uncached(s, peer_id, hash) ==
    push_back(s, StateAction("NewBlock", peer_id, hash, ""))

\* the body of the loop of announce_new_block for a peer lacking the hash
announce_to(s, peer_id, hash) ==
    LET s1 == push_back(s, StateAction("NewBlock", peer_id, hash, ""))
        adv == fetcher_update_returns(s1.state_fetcher, peer_id, header_number(hash))
        s2 == [s1 EXCEPT !.state_fetcher =
                            fetcher_update_peer_block(@, peer_id, header_number(hash)),
                         !.active_peers[peer_id].best_hash = IF adv THEN hash ELSE @]
    IN  [s2 EXCEPT !.active_peers[peer_id].blocks = LruInsert(@, hash)]

RECURSIVE announce_loop(_, _, _, _, _)
announce_loop(s, hash, num_propagate, order, count) ==
    IF order = <<>> THEN s
    ELSE LET peer_id == Head(order) IN
         IF LruContains(s.active_peers[peer_id].blocks, hash)
         THEN announce_loop(s, hash, num_propagate, Tail(order), count)
         ELSE LET s1 == IF count < num_propagate THEN announce_to(s, peer_id, hash) ELSE s
                  c1 == IF count < num_propagate THEN count + 1 ELSE count
              IN  IF c1 >= num_propagate THEN s1
                  ELSE announce_loop(s1, hash, num_propagate, Tail(order), c1)

\* announce_new_block with the square root without the + 1
announce_new_block_sqrt_only(s, hash, order) ==
    announce_loop(s, hash, isqrt(Cardinality(DOMAIN s.active_peers)), order, 0)

\* order: the order in which active_peers.iter_mut() yields the peers
announce_new_block(s, hash, order) ==
    announce_loop(s, hash, isqrt(Cardinality(DOMAIN s.active_peers)) + 1, order, 0)

\* the body of the loop of announce_new_block_hash marking the block as seen
hash_to_marks_seen(s, peer_id, hash) ==
    LET adv == fetcher_update_returns(s.state_fetcher, peer_id, header_number(hash))
        s1 == [s EXCEPT !.state_fetcher =
                           fetcher_update_peer_block(@, peer_id, header_number(hash)),
                        !.active_peers[peer_id].best_hash = IF adv THEN hash ELSE @,
                        !.active_peers[peer_id].blocks = LruInsert(@, hash)]
    IN  push_back(s1, StateAction("NewBlockHashes", peer_id, hash, ""))

\* the body of the loop of announce_new_block_hash for a peer lacking the hash
hash_to(s, peer_id, hash) ==
    LET adv == fetcher_update_returns(s.state_fetcher, peer_id, header_number(hash))
        s1 == [s EXCEPT !.state_fetcher =
                           fetcher_update_peer_block(@, peer_id, header_number(hash)),
                        !.active_peers[peer_id].best_hash = IF adv THEN hash ELSE @]
    IN  push_back(s1, StateAction("NewBlockHashes", peer_id, hash, ""))

\* announce_new_block_hash that does not skip the peers that have the block
RECURSIVE announce_new_block_hash_to_all(_, _, _)
announce_new_block_hash_to_all(s, hash, order) ==
    IF order = <<>> THEN s
    ELSE announce_new_block_hash_to_all(hash_to(s, Head(order), hash), hash, Tail(order))

RECURSIVE announce_new_block_hash(_, _, _)
announce_new_block_hash(s, hash, order) ==
    IF order = <<>> THEN s
    ELSE LET peer_id == Head(order) IN
         IF LruContains(s.active_peers[peer_id].blocks, hash)
         THEN announce_new_block_hash(s, hash, Tail(order))
         ELSE announce_new_block_hash(hash_to(s, peer_id, hash), hash, Tail(order))

\* self.active_peers.len()
num_active_peers(s) == Cardinality(DOMAIN s.active_peers)

\* update_peer_block setting best_hash only if the fetcher's number advances
update_peer_block_if_advances(s, peer_id, hash) ==
    LET adv == fetcher_update_returns(s.state_fetcher, peer_id, header_number(hash)) IN
    [s EXCEPT !.active_peers = IF peer_id \in DOMAIN @ /\ adv
                               THEN [@ EXCEPT ![peer_id].best_hash = hash] ELSE @,
              !.state_fetcher = fetcher_update_peer_block(@, peer_id, header_number(hash))]

update_peer_block(s, peer_id, hash) ==
    [s EXCEPT !.active_peers = IF peer_id \in DOMAIN @
                               THEN [@ EXCEPT ![peer_id].best_hash = hash] ELSE @,
              !.state_fetcher = fetcher_update_peer_block(@, peer_id, header_number(hash))]

on_new_block(s, peer_id, hash) ==
    IF peer_id \in DOMAIN s.active_peers
    THEN [s EXCEPT !.active_peers[peer_id].blocks = LruInsert(@, hash)]
    ELSE s

on_new_block_hashes(s, peer_id, hashes) ==
    IF peer_id \in DOMAIN s.active_peers
    THEN [s EXCEPT !.active_peers[peer_id].blocks = LruExtend(@, hashes)]
    ELSE s


on_discovery_event(s, event) ==
    IF event.kind = "Discovered"
    THEN Call(s, "add_discovered_node", event.peer_id, "")
    ELSE push_back(s, StateAction("DiscoveredEnrForkId", event.peer_id, 0, ""))

\* on_peer_action that answers a ban with a disconnect
on_peer_action_ban_disconnects(s, action) ==
    CASE action.kind = "Connect" ->
            push_back(s, StateAction("Connect", action.peer_id, 0, ""))
      [] action.kind = "Disconnect" ->
            push_back(Call(s, "on_pending_disconnect", action.peer_id, ""),
                      StateAction("Disconnect", action.peer_id, 0, action.reason))
      [] action.kind = "DisconnectBannedIncoming" ->
            push_back(Call(s, "on_pending_disconnect", action.peer_id, ""),
                      StateAction("Disconnect", action.peer_id, 0, "None"))
      [] action.kind = "DiscoveryBanPeerId" -> Call(s, "ban_discovery", action.peer_id, "")
      [] action.kind = "DiscoveryBanIp" -> Call(s, "ban_ip_discovery", action.peer_id, "")
      [] action.kind = "PeerAdded" ->
            push_back(s, StateAction("PeerAdded", action.peer_id, 0, ""))
      [] action.kind = "PeerRemoved" ->
            push_back(s, StateAction("PeerRemoved", action.peer_id, 0, ""))
      [] action.kind = "BanPeer" ->
            push_back(s, StateAction("Disconnect", action.peer_id, 0, "None"))
      [] action.kind = "UnBanPeer" -> s

on_peer_action(s, action) ==
    CASE action.kind = "Connect" ->
            push_back(s, StateAction("Connect", action.peer_id, 0, ""))
      [] action.kind = "Disconnect" ->
            push_back(Call(s, "on_pending_disconnect", action.peer_id, ""),
                      StateAction("Disconnect", action.peer_id, 0, action.reason))
      [] action.kind = "DisconnectBannedIncoming" ->
            push_back(Call(s, "on_pending_disconnect", action.peer_id, ""),
                      StateAction("Disconnect", action.peer_id, 0, "None"))
      [] action.kind = "DiscoveryBanPeerId" -> Call(s, "ban_discovery", action.peer_id, "")
      [] action.kind = "DiscoveryBanIp" -> Call(s, "ban_ip_discovery", action.peer_id, "")
      [] action.kind = "PeerAdded" ->
            push_back(s, StateAction("PeerAdded", action.peer_id, 0, ""))
      [] action.kind = "PeerRemoved" ->
            push_back(s, StateAction("PeerRemoved", action.peer_id, 0, ""))
      [] action.kind \in {"BanPeer", "UnBanPeer"} -> s

\* on_session_disconnected leaving the peer in the map
on_session_disconnected_keeps_peer(s, peer) == s

\* on_session_disconnected that also tells the fetcher and queues a Disconnect
on_session_disconnected_tells_fetcher(s, peer) ==
    LET s1 == Call(s, "on_session_closed", peer, "") IN
    push_back([s1 EXCEPT !.active_peers = MapRemove(@, peer),
                         !.state_fetcher = fetcher_on_session_closed(@, peer)],
              StateAction("Disconnect", peer, 0, "None"))

on_session_disconnected(s, peer) == [s EXCEPT !.active_peers = MapRemove(@, peer)]

\* handle_block_request that stores the receiver only if the request was sent
handle_block_request_stores_if_sent(s, peer, kind, sent) ==
    IF peer \in DOMAIN s.active_peers /\ sent
    THEN [Call(s, "try_send", peer, kind) EXCEPT
             !.active_peers[peer].pending_response = PeerResponse(kind, "alive")]
    ELSE s

\* handle_block_request that tries the send also for a peer that is not active
handle_block_request_sends_to_stranger(s, peer, kind, sent) ==
    LET s1 == IF sent THEN Call(s, "try_send", peer, kind) ELSE s IN
    IF peer \in DOMAIN s.active_peers
    THEN [s1 EXCEPT !.active_peers[peer].pending_response =
                        PeerResponse(kind, IF sent THEN "alive" ELSE "dropped")]
    ELSE s1

\* sent: whether request_tx.try_send accepted the request; when it did not,
\* the request is dropped and its one-shot sender with it
handle_block_request(s, peer, kind, sent) ==
    IF peer \in DOMAIN s.active_peers
    THEN LET s1 == IF sent THEN Call(s, "try_send", peer, kind) ELSE s
         IN  [s1 EXCEPT !.active_peers[peer].pending_response =
                             PeerResponse(kind, IF sent THEN "alive" ELSE "dropped")]
    ELSE s

\* on_block_response_outcome that also queues a Disconnect for a bad response
on_block_response_outcome_disconnects(s, outcome) ==
    CASE outcome.kind = "Request" ->
            handle_block_request(s, outcome.peer_id, outcome.request, outcome.sent)
      [] outcome.kind = "BadResponse" ->
            push_back(Call(s, "apply_reputation_change", outcome.peer_id, "BadResponse"),
                      StateAction("Disconnect", outcome.peer_id, 0, "None"))

\* outcome: what StateFetcher makes of the response
on_block_response_outcome(s, outcome) ==
    CASE outcome.kind = "Request" ->
            handle_block_request(s, outcome.peer_id, outcome.request, outcome.sent)
      [] outcome.kind = "BadResponse" ->
            Call(s, "apply_reputation_change", outcome.peer_id, "BadResponse")

on_eth_response(s, peer, kind, outcome) ==
    LET s1 == Call(s, IF kind = "BlockHeaders" THEN "on_block_headers_response"
                      ELSE "on_block_bodies_response", peer, "")
    IN  IF outcome.kind = "None" THEN s1 ELSE on_block_response_outcome(s1, outcome)

RECURSIVE drain_discovery(_, _)
drain_discovery(s, events) ==
    IF events = <<>> THEN s
    ELSE drain_discovery(on_discovery_event(s, Head(events)), Tail(events))

RECURSIVE drain_fetcher(_, _)
drain_fetcher(s, actions) ==
    IF actions = <<>> THEN s
    ELSE drain_fetcher(handle_block_request(s, Head(actions).peer_id, Head(actions).request,
                                            Head(actions).sent), Tail(actions))

RECURSIVE drain_peers_manager(_, _)
drain_peers_manager(s, actions) ==
    IF actions = <<>> THEN s
    ELSE drain_peers_manager(on_peer_action(s, Head(actions)), Tail(actions))

\* polling a receiver whose sender was dropped as if the answer were still
\* to come
oneshot_poll_waits_for_dropped(response, ready, id) ==
    IF response.sender = "dropped" THEN "Pending" ELSE ready[id]

\* the loop over active_peers.iter_mut() in poll: ready[id] is what polling the
\* receiver of peer id gives. The result holds the state and both buffers.
\* polling a one-shot receiver: Err once the sender was dropped unanswered
oneshot_poll(response, ready, id) ==
    IF response.sender = "dropped" THEN "Err" ELSE ready[id]

\* the loop leaving the receiver of a response it received with the peer
RECURSIVE poll_responses_keeps_receiver(_, _, _, _, _)
poll_responses_keeps_receiver(s, order, ready, disconnect_sessions, received_responses) ==
    IF order = <<>>
    THEN [state |-> s, disconnect_sessions |-> disconnect_sessions,
          received_responses |-> received_responses]
    ELSE LET id == Head(order)
             response == s.active_peers[id].pending_response
             taken == [s EXCEPT !.active_peers[id].pending_response = NoResponse]
             polled == oneshot_poll(response, ready, id)
         IN  IF response = NoResponse
             THEN poll_responses_keeps_receiver(s, Tail(order), ready, disconnect_sessions,
                                                received_responses)
             ELSE CASE polled = "Err" ->
                         poll_responses_keeps_receiver(taken, Tail(order), ready,
                                        Append(disconnect_sessions, id), received_responses)
                    [] polled = "Ok" ->
                         poll_responses_keeps_receiver(s, Tail(order), ready,
                                        disconnect_sessions,
                                        Append(received_responses, <<id, response.kind>>))
                    [] polled = "Pending" ->
                         poll_responses_keeps_receiver(s, Tail(order), ready,
                                        disconnect_sessions, received_responses)

RECURSIVE poll_responses(_, _, _, _, _)
poll_responses(s, order, ready, disconnect_sessions, received_responses) ==
    IF order = <<>>
    THEN [state |-> s, disconnect_sessions |-> disconnect_sessions,
          received_responses |-> received_responses]
    ELSE LET id == Head(order)
             response == s.active_peers[id].pending_response
             taken == [s EXCEPT !.active_peers[id].pending_response = NoResponse]
             polled == oneshot_poll(response, ready, id)
         IN  IF response = NoResponse
             THEN poll_responses(s, Tail(order), ready, disconnect_sessions,
                                 received_responses)
             ELSE CASE polled = "Err" ->
                         poll_responses(taken, Tail(order), ready,
                                        Append(disconnect_sessions, id), received_responses)
                    [] polled = "Ok" ->
                         poll_responses(taken, Tail(order), ready, disconnect_sessions,
                                        Append(received_responses, <<id, response.kind>>))
                    [] polled = "Pending" ->
                         poll_responses(s, Tail(order), ready, disconnect_sessions,
                                        received_responses)

RECURSIVE disconnect_all(_, _)
disconnect_all(s, peers) ==
    IF peers = <<>> THEN s
    ELSE disconnect_all(on_session_disconnected(s, Head(peers)), Tail(peers))

RECURSIVE respond_all(_, _, _)
respond_all(s, responses, outcome) ==
    IF responses = <<>> THEN s
    ELSE respond_all(on_eth_response(s, Head(responses)[1], Head(responses)[2],
                                     outcome[Head(responses)[1]]),
                     Tail(responses), outcome)

\* taking the newest action instead of the oldest
pop_back(q) == [msg |-> q[Len(q)], rest |-> SubSeq(q, 1, Len(q) - 1)]

\* queued_messages.pop_front() on a non-empty queue
pop_front(q) == [msg |-> Head(q), rest |-> Tail(q)]

\* a pass of poll in which no source yields anything
NoInput == [discovery |-> <<>>, fetch |-> <<>>, order |-> <<>>, ready |-> EmptyMap,
            outcome |-> EmptyMap, peer_actions |-> <<>>]

\* a pass that hands the responses to the fetcher before it drops the peers
\* whose channel it found closed
poll_pass_responds_first(s, in) ==
    LET s1 == drain_discovery(s, in.discovery)
        s2 == drain_fetcher(s1, in.fetch)
        r  == poll_responses(s2, in.order, in.ready, <<>>, <<>>)
        s3 == respond_all(r.state, r.received_responses, in.outcome)
        s4 == disconnect_all(s3, r.disconnect_sessions)
    IN  drain_peers_manager(s4, in.peer_actions)

\* One pass of the loop of poll after the queue was found empty.
\* in: what the sources yield in this pass:
\*   discovery, fetch, peer_actions : the items that are ready, in order
\*   order   : the order of active_peers.iter_mut()
\*   ready   : the result of polling each pending response
\*   outcome : StateFetcher's verdict on each received response
poll_pass(s, in) ==
    LET s1 == drain_discovery(s, in.discovery)
        s2 == drain_fetcher(s1, in.fetch)
        r  == poll_responses(s2, in.order, in.ready, <<>>, <<>>)
        s3 == disconnect_all(r.state, r.disconnect_sessions)
        s4 == respond_all(s3, r.received_responses, in.outcome)
    IN  drain_peers_manager(s4, in.peer_actions)

\* the loop giving up after one pass, whatever the pass queued
poll_loop_one_pass(s, in, iteration) ==
    IF s.queued_messages # <<>>
    THEN [state |-> [s EXCEPT !.queued_messages = pop_front(@).rest],
          result |-> Ready(pop_front(s.queued_messages).msg),
          iterations |-> iteration]
    ELSE [state |-> poll_pass(s, in), result |-> Pending, iterations |-> iteration]

\* The loop of poll, entered for the iteration-th time. The sources were
\* drained in the pass before, so a later pass finds nothing ready.
RECURSIVE poll_loop(_, _, _)
poll_loop(s, in, iteration) ==
    IF s.queued_messages # <<>>
    THEN [state |-> [s EXCEPT !.queued_messages = pop_front(@).rest],
          result |-> Ready(pop_front(s.queued_messages).msg),
          iterations |-> iteration]
    ELSE LET s5 == poll_pass(s, in) IN
         IF s5.queued_messages = <<>>
         THEN [state |-> s5, result |-> Pending, iterations |-> iteration]
         ELSE poll_loop(s5, NoInput, iteration + 1)

poll(s, in) == poll_loop(s, in, 1)

(***************************************************************************)
(* The history variable ns_call. A specification that observes the calls   *)
(* sets it with Seen, the others leave it at NoCall with Unseen.           *)
(***************************************************************************)
NsCall(op, peer_id, hash) ==
    [op |-> op, peer_id |-> peer_id, hash |-> hash, answer |-> "", order |-> <<>>,
     in |-> NoInput, iterations |-> 0, held |-> EmptyMap]
NoCall == NsCall("none", 0, 0)
Unseen == ns_call' = NoCall
Seen(call) == ns_call' = call

(***************************************************************************)
(* The steps of NetworkState: one action per handler the network manager   *)
(* calls. Each sets the history variables next to the handler's effect;    *)
(* cycle is set by the specification (see the Cycle definitions below).    *)
(***************************************************************************)
NoCycle == [phase |-> 0, hash |-> 0, active |-> {}, lacking |-> {},
            first |-> <<>>, reports |-> 0]

\* the peers of s whose blocks cache lacks the hash
Lacking(s, hash) ==
    {p \in DOMAIN s.active_peers : ~LruContains(s.active_peers[p].blocks, hash)}

\* the ghost field cached of the NewBlock actions the handler just pushed
MarkCached(s) ==
    LET InCache(m) == /\ m.peer_id \in DOMAIN s.active_peers
                      /\ LruContains(s.active_peers[m.peer_id].blocks, m.hash)
        Mark(q) == [i \in DOMAIN q |->
                       IF q[i].kind = "NewBlock" /\ ~q[i].cached
                       THEN [q[i] EXCEPT !.cached = InCache(q[i])]
                       ELSE q[i]]
    IN  [s EXCEPT !.queued_messages = Mark(@), !.pushed = Mark(@)]

Store(s) ==
    /\ Len(s.queued_messages) <= MaxQueue
    /\ active_peers' = s.active_peers
    /\ queued_messages' = s.queued_messages
    /\ state_fetcher' = s.state_fetcher
    /\ pushed' = s.pushed
    /\ calls' = s.calls
    /\ UNCHANGED <<tm_vars, pure_vars>>

\* answer: what client.block_number(status.blockhash) returns
OnSessionActivated(peer, blockhash, answer) ==
    /\ peer \notin DOMAIN active_peers
    /\ Store(on_session_activated(NS, peer, blockhash,
                IF answer = "Some" THEN header_number(blockhash) ELSE 0))
    /\ sessions' = sessions \cup {peer}
    /\ chan_failed' = chan_failed \ {peer}
    /\ poll_result' = NotPolled

OnSessionClosed(peer) ==
    /\ peer \in sessions
    /\ Store(on_session_closed(NS, peer))
    /\ sessions' = sessions \ {peer}
    /\ chan_failed' = chan_failed \ {peer}
    /\ poll_result' = NotPolled

AnnounceNewBlock(hash, order) ==
    /\ IsOrder(order, DOMAIN active_peers)
    /\ Store(MarkCached(announce_new_block(NS, hash, order)))
    /\ poll_result' = NotPolled
    /\ UNCHANGED <<sessions, chan_failed>>

AnnounceNewBlockHash(hash, order) ==
    /\ IsOrder(order, DOMAIN active_peers)
    /\ Store(announce_new_block_hash(NS, hash, order))
    /\ poll_result' = NotPolled
    /\ UNCHANGED <<sessions, chan_failed>>

UpdatePeerBlock(peer_id, hash) ==
    /\ Store(update_peer_block(NS, peer_id, hash))
    /\ poll_result' = NotPolled
    /\ UNCHANGED <<sessions, chan_failed>>

OnNewBlock(peer_id, hash) ==
    /\ Store(on_new_block(NS, peer_id, hash))
    /\ poll_result' = NotPolled
    /\ UNCHANGED <<sessions, chan_failed>>

OnNewBlockHashes(peer_id, hashes) ==
    /\ Store(on_new_block_hashes(NS, peer_id, hashes))
    /\ poll_result' = NotPolled
    /\ UNCHANGED <<sessions, chan_failed>>

\* the peers whose pending response poll finds closed: the receiver of the
\* response the peer holds when the loop reaches it gives Ready(Err)
ChannelsFoundClosed(in) ==
    IF queued_messages # <<>> THEN {}
    ELSE LET s2 == drain_fetcher(drain_discovery(NS, in.discovery), in.fetch) IN
         {p \in DOMAIN s2.active_peers :
             /\ s2.active_peers[p].pending_response # NoResponse
             /\ oneshot_poll(s2.active_peers[p].pending_response, in.ready, p) = "Err"}

Poll(in) ==
    LET r == poll(NS, in) IN
    /\ Store(r.state)
    /\ poll_result' = r.result
    /\ chan_failed' = chan_failed \cup ChannelsFoundClosed(in)
    /\ UNCHANGED sessions

(***************************************************************************)
(* What the sources of poll can yield.                                     *)
(***************************************************************************)
UpTo1(S) == {<<>>} \cup {<<x>> : x \in S}

\* StateFetcher's verdicts on a response: nothing, a bad response, or a
\* follow-up request (sent: whether try_send to the session succeeds)
OutcomeShapes(kinds) ==
    {[kind |-> "None", request |-> "", sent |-> FALSE],
     [kind |-> "BadResponse", request |-> "", sent |-> FALSE]}
    \cup [kind : {"Request"}, request : kinds, sent : BOOLEAN]

\* the verdict of shape sh about the peer
Outcome(peer, sh) ==
    [kind |-> sh.kind, peer_id |-> peer, request |-> sh.request, sent |-> sh.sent]

\* the iteration orders of the map that poll can tell apart: the order shows
\* only when two or more responses are ready
IterOrders(S, ready) ==
    IF Cardinality({p \in DOMAIN ready : ready[p] # "Pending"}) < 2
    THEN {CHOOSE o \in Orders(S) : TRUE}
    ELSE Orders(S)

\* poll with a non-empty queue returns its head and polls no source
PollQueued ==
    /\ queued_messages # <<>>
    /\ Poll(NoInput)

\* What a pass over the sources can find: kinds are the kinds of block
\* request the fetcher issues, answers what polling a response whose sender is
\* alive can give.
PollInputs(discovery, fetch, peer_actions, kinds, answers) ==
    LET s2 == drain_fetcher(NS, fetch)
        waiting == {p \in DOMAIN s2.active_peers :
                       s2.active_peers[p].pending_response.sender = "alive"}
    IN  UNION {UNION {
           {[discovery |-> discovery, fetch |-> fetch, order |-> order, ready |-> ready,
             outcome |-> [p \in DOMAIN shape |-> Outcome(p, shape[p])],
             peer_actions |-> peer_actions] :
              shape \in [{p \in waiting : ready[p] = "Ok"} -> OutcomeShapes(kinds)]} :
           order \in IterOrders(DOMAIN active_peers, ready)} :
           ready \in [waiting -> answers]}

\* poll with an empty queue makes a pass over the sources
PollSources(discovery, fetch, peer_actions, kinds, answers) ==
    /\ queued_messages = <<>>
    /\ \E in \in PollInputs(discovery, fetch, peer_actions, kinds, answers) : Poll(in)

\* the same steps, observed
\* held: the pending response of every active peer when poll was called
PollCall(in) ==
    [NsCall("poll", 0, 0) EXCEPT
        !.in = in, !.iterations = poll(NS, in).iterations,
        !.held = [p \in DOMAIN active_peers |-> active_peers[p].pending_response]]

PollQueuedSeen ==
    /\ queued_messages # <<>>
    /\ Poll(NoInput)
    /\ Seen(PollCall(NoInput))

PollSourcesSeen(discovery, fetch, peer_actions, kinds, answers) ==
    /\ queued_messages = <<>>
    /\ \E in \in PollInputs(discovery, fetch, peer_actions, kinds, answers) :
          Poll(in) /\ Seen(PollCall(in))

(***************************************************************************)
(* TransactionsManager. Handlers are operators on the record TS of its     *)
(* fields; network logs the calls on the NetworkHandle. A transaction is   *)
(* its hash; an incoming transaction also says whether its signer can be   *)
(* recovered.                                                              *)
(***************************************************************************)
TmPeerIds == {1, 2, 3, 4, 5}
TxHashes == {1, 2}

Peer == [transactions |-> LruNew(PEER_TRANSACTION_CACHE_LIMIT)]

\* polled logs the receivers the loop over inflight_requests polled, panicked
\* says whether an index was out of bounds
TS == [peers |-> tm_peers, transactions_by_peers |-> transactions_by_peers,
       pool_imports |-> pool_imports, inflight_requests |-> inflight_requests,
       network |-> <<>>, propagated |-> <<>>, polled |-> <<>>, panicked |-> FALSE]

\* a call on the NetworkHandle
net_call(s, fn, peer_id, arg) ==
    [s EXCEPT !.network = Append(@, [fn |-> fn, peer_id |-> peer_id, arg |-> arg])]

report_bad_message(s, peer_id) ==
    net_call(s, "reputation_change", peer_id, "BadTransactions")

\* txs.iter().filter(|(hash, _)| peer.transactions.insert(*hash)) keeping every
\* transaction whatever insert returns
RECURSIVE tx_filter_keeps_all(_, _, _)
tx_filter_keeps_all(cache, txs, kept) ==
    IF txs = <<>> THEN [cache |-> cache, kept |-> kept]
    ELSE tx_filter_keeps_all(LruInsert(cache, Head(txs)), Tail(txs), Append(kept, Head(txs)))

\* txs.iter().filter(|(hash, _)| peer.transactions.insert(*hash)): the cache
\* after the inserts and the transactions whose insert returned true
RECURSIVE tx_filter(_, _, _)
tx_filter(cache, txs, kept) ==
    IF txs = <<>> THEN [cache |-> cache, kept |-> kept]
    ELSE tx_filter(LruInsert(cache, Head(txs)), Tail(txs),
                   IF LruContains(cache, Head(txs)) THEN kept ELSE Append(kept, Head(txs)))

\* propagated.0.entry(hash).or_default().push(kind) for each of the hashes
RECURSIVE propagated_push(_, _, _)
propagated_push(propagated, hashes, kind) ==
    IF hashes = <<>> THEN propagated
    ELSE propagated_push(Append(propagated, <<Head(hashes), kind>>), Tail(hashes), kind)

\* the body of the loop recording Full also for a peer that is sent hashes
propagate_to_records_full(s, idx, peer_id, txs, max_num_full) ==
    LET f  == tx_filter(s.peers[peer_id].transactions, txs, <<>>)
        s1 == [s EXCEPT !.peers[peer_id].transactions = f.cache]
    IN  IF f.kept = <<>> THEN s1
        ELSE [net_call(s1, IF idx > max_num_full THEN "send_transactions_hashes"
                           ELSE "send_transactions", peer_id, f.kept)
                EXCEPT !.propagated = propagated_push(@, f.kept, <<"Full", peer_id>>)]

\* the body of the loop of propagate_transactions for the peer at index idx
propagate_to(s, idx, peer_id, txs, max_num_full) ==
    LET f  == tx_filter(s.peers[peer_id].transactions, txs, <<>>)
        s1 == [s EXCEPT !.peers[peer_id].transactions = f.cache]
    IN  IF f.kept = <<>> THEN s1
        ELSE IF idx > max_num_full
        THEN [net_call(s1, "send_transactions_hashes", peer_id, f.kept)
                EXCEPT !.propagated = propagated_push(@, f.kept, <<"Hash", peer_id>>)]
        ELSE [net_call(s1, "send_transactions", peer_id, f.kept)
                EXCEPT !.propagated = propagated_push(@, f.kept, <<"Full", peer_id>>)]

RECURSIVE propagate_loop(_, _, _, _, _)
propagate_loop(s, txs, order, idx, max_num_full) ==
    IF order = <<>> THEN s
    ELSE propagate_loop(propagate_to(s, idx, Head(order), txs, max_num_full),
                        txs, Tail(order), idx + 1, max_num_full)

\* order: the order of self.peers.iter_mut()
propagate_transactions(s, txs, order) ==
    propagate_loop(s, txs, order, 0, isqrt(Cardinality(DOMAIN s.peers)) + 1)

\* txs: what pool.get_all(hashes) returns
on_new_transactions(s, txs, order) ==
    LET r == propagate_transactions([s EXCEPT !.propagated = <<>>], txs, order)
    IN  net_call(r, "pool.on_propagated", 0, r.propagated)

on_command(s, cmd) == on_new_transactions(s, cmd.txs, cmd.order)

\* on_network_event recording the hashes it announces in the peer's cache
on_network_event_caches_announced(s, event) ==
    CASE event.kind = "SessionClosed" ->
            [s EXCEPT !.peers = MapRemove(@, event.peer_id)]
      [] event.kind = "SessionEstablished" ->
            net_call([s EXCEPT !.peers =
                         MapInsert(@, event.peer_id,
                                   [Peer EXCEPT !.transactions = LruExtend(@, event.pooled)])],
                     "send_message", event.peer_id, event.pooled)
      [] OTHER -> s

\* on_network_event keeping the Peer a peer already has
on_network_event_keeps_peer(s, event) ==
    CASE event.kind = "SessionClosed" ->
            [s EXCEPT !.peers = MapRemove(@, event.peer_id)]
      [] event.kind = "SessionEstablished" ->
            net_call([s EXCEPT !.peers = IF event.peer_id \in DOMAIN @ THEN @
                                         ELSE MapInsert(@, event.peer_id, Peer)],
                     "send_message", event.peer_id, event.pooled)
      [] OTHER -> s

\* pooled: what pool.pooled_transactions() returns
on_network_event(s, event) ==
    CASE event.kind = "SessionClosed" ->
            [s EXCEPT !.peers = MapRemove(@, event.peer_id)]
      [] event.kind = "SessionEstablished" ->
            net_call([s EXCEPT !.peers = MapInsert(@, event.peer_id, Peer)],
                     "send_message", event.peer_id, event.pooled)
      [] OTHER -> s

\* import_one putting the peer in front of the entry
import_one_in_front(s, peer_id, tx) ==
    LET s1 == [s EXCEPT !.peers[peer_id].transactions = LruInsert(@, tx.hash)] IN
    IF tx.hash \in DOMAIN s1.transactions_by_peers
    THEN [s1 EXCEPT !.transactions_by_peers[tx.hash] = <<peer_id>> \o @]
    ELSE [s1 EXCEPT !.pool_imports = Append(@, tx.hash),
                    !.transactions_by_peers = MapInsert(@, tx.hash, <<peer_id>>)]

\* the body of the loop of import_transactions for one transaction
import_one(s, peer_id, tx) ==
    LET s1 == [s EXCEPT !.peers[peer_id].transactions = LruInsert(@, tx.hash)] IN
    IF tx.hash \in DOMAIN s1.transactions_by_peers
    THEN [s1 EXCEPT !.transactions_by_peers[tx.hash] = Append(@, peer_id)]
    ELSE [s1 EXCEPT !.pool_imports = Append(@, tx.hash),
                    !.transactions_by_peers = MapInsert(@, tx.hash, <<peer_id>>)]

\* the loop of import_transactions not skipping what recovers no signer
RECURSIVE import_loop_skips_nothing(_, _, _)
import_loop_skips_nothing(s, peer_id, transactions) ==
    IF transactions = <<>> THEN s
    ELSE import_loop_skips_nothing(import_one(s, peer_id, Head(transactions)),
                                   peer_id, Tail(transactions))

RECURSIVE import_loop(_, _, _)
import_loop(s, peer_id, transactions) ==
    IF transactions = <<>> THEN s
    ELSE import_loop(IF Head(transactions).recovered
                     THEN import_one(s, peer_id, Head(transactions)) ELSE s,
                     peer_id, Tail(transactions))

\* import_transactions reporting a bad message also of a peer it does not know
import_transactions_penalises_stranger(s, peer_id, transactions) ==
    LET has_bad_transactions == \E i \in DOMAIN transactions : ~transactions[i].recovered
        s1 == IF peer_id \in DOMAIN s.peers
              THEN import_loop(s, peer_id, transactions) ELSE s
    IN  IF has_bad_transactions THEN report_bad_message(s1, peer_id) ELSE s1

import_transactions(s, peer_id, transactions) ==
    LET has_bad_transactions ==
            peer_id \in DOMAIN s.peers
            /\ \E i \in DOMAIN transactions : ~transactions[i].recovered
        s1 == IF peer_id \in DOMAIN s.peers
              THEN import_loop(s, peer_id, transactions) ELSE s
    IN  IF has_bad_transactions THEN report_bad_message(s1, peer_id) ELSE s1

\* on_good_import leaving the entry in the map
on_good_import_keeps_entry(s, hash) == s

on_good_import(s, hash) ==
    [s EXCEPT !.transactions_by_peers = MapRemove(@, hash)]

RECURSIVE report_all(_, _)
report_all(s, peer_ids) ==
    IF peer_ids = <<>> THEN s
    ELSE report_all(report_bad_message(s, Head(peer_ids)), Tail(peer_ids))

on_bad_import(s, hash) ==
    IF hash \in DOMAIN s.transactions_by_peers
    THEN report_all([s EXCEPT !.transactions_by_peers = MapRemove(@, hash)],
                    s.transactions_by_peers[hash])
    ELSE s

\* found: what pool.get_all(request) returns
on_get_pooled_transactions(s, peer_id, found) ==
    IF peer_id \in DOMAIN s.peers
    THEN net_call([s EXCEPT !.peers[peer_id].transactions = LruExtend(@, found)],
                  "response.send", peer_id, found)
    ELSE s

\* on_new_pooled_transactions that tracks the request whether or not it was sent
on_new_pooled_transactions_tracks_unsent(s, peer_id, hashes, unknown, sent) ==
    IF peer_id \in DOMAIN s.peers
    THEN LET s1 == [s EXCEPT !.peers[peer_id].transactions = LruExtend(@, hashes)] IN
         IF unknown = <<>> THEN s1
         ELSE [(IF sent THEN net_call(s1, "request_tx.try_send", peer_id, unknown) ELSE s1)
                  EXCEPT !.inflight_requests =
                             Append(@, [peer_id |-> peer_id, request |-> unknown])]
    ELSE s

\* unknown: what pool.retain_unknown leaves of the hashes; sent: whether
\* request_tx.try_send accepted the request, which the log shows as a call
on_new_pooled_transactions(s, peer_id, hashes, unknown, sent) ==
    IF peer_id \in DOMAIN s.peers
    THEN LET s1 == [s EXCEPT !.peers[peer_id].transactions = LruExtend(@, hashes)] IN
         IF unknown = <<>> THEN s1
         ELSE IF sent
         THEN [net_call(s1, "request_tx.try_send", peer_id, unknown)
                  EXCEPT !.inflight_requests =
                             Append(@, [peer_id |-> peer_id, request |-> unknown])]
         ELSE s1
    ELSE s

on_network_tx_event(s, event) ==
    CASE event.kind = "IncomingTransactions" ->
            import_transactions(s, event.peer_id, event.msg)
      [] event.kind = "IncomingPooledTransactionHashes" ->
            on_new_pooled_transactions(s, event.peer_id, event.msg, event.unknown, event.sent)
      [] event.kind = "GetPooledTransactions" ->
            on_get_pooled_transactions(s, event.peer_id, event.found)

\* polling the response of a request that is not answered yet
StillPending == [kind |-> "Pending", txs |-> <<>>]

\* swap_remove that does not move the last element into the hole
swap_remove_pops_last(v, idx) ==
    [item |-> v[idx + 1], rest |-> SubSeq(v, 1, Len(v) - 1)]

\* Vec::swap_remove(idx) with idx counted from 0: the element and the rest
swap_remove(v, idx) ==
    [item |-> v[idx + 1],
     rest |-> IF idx + 1 = Len(v) THEN SubSeq(v, 1, Len(v) - 1)
              ELSE [i \in 1..(Len(v) - 1) |-> IF i = idx + 1 THEN v[Len(v)] ELSE v[i]]]

\* A request in the list while the loop runs: req is the GetPooledTxRequest,
\* pos (ghost) the index it had when the loop started, which tells its
\* receiver from the others.
Held(v) == IF v = <<>> THEN <<>> ELSE [i \in 1..Len(v) |-> [req |-> v[i], pos |-> i - 1]]
Requests(v) == IF v = <<>> THEN <<>> ELSE [i \in 1..Len(v) |-> v[i].req]

\* the loop putting back a request whose channel was closed
RECURSIVE advance_requests_keeps_closed(_, _, _)
advance_requests_keeps_closed(s, idx, responses) ==
    IF idx < 0 \/ s.panicked THEN s
    ELSE IF idx >= Len(s.inflight_requests) THEN [s EXCEPT !.panicked = TRUE]
    ELSE LET taken == swap_remove(s.inflight_requests, idx)
             held == taken.item
             s1 == [s EXCEPT !.inflight_requests = taken.rest,
                             !.polled = Append(@, held.pos)]
             res == IF held.pos \in DOMAIN responses THEN responses[held.pos]
                    ELSE StillPending
             s2 == CASE res.kind \in {"Pending", "Closed"} ->
                           [s1 EXCEPT !.inflight_requests = Append(@, held)]
                     [] res.kind = "Ok" -> import_transactions(s1, held.req.peer_id, res.txs)
                     [] res.kind = "RequestError" ->
                           report_bad_message(s1, held.req.peer_id)
         IN  advance_requests_keeps_closed(s2, idx - 1, responses)

\* the loop over (0..inflight_requests.len()).rev() in poll, at idx (-1: done);
\* responses[pos] is what polling the receiver of the request that was at
\* index pos when the loop started gives. An index out of bounds panics.
RECURSIVE advance_requests(_, _, _)
advance_requests(s, idx, responses) ==
    IF idx < 0 \/ s.panicked THEN s
    ELSE IF idx >= Len(s.inflight_requests) THEN [s EXCEPT !.panicked = TRUE]
    ELSE LET taken == swap_remove(s.inflight_requests, idx)
             held == taken.item
             s1 == [s EXCEPT !.inflight_requests = taken.rest,
                             !.polled = Append(@, held.pos)]
             res == IF held.pos \in DOMAIN responses THEN responses[held.pos]
                    ELSE StillPending
             s2 == CASE res.kind = "Pending" ->
                           [s1 EXCEPT !.inflight_requests = Append(@, held)]
                     [] res.kind = "Ok" -> import_transactions(s1, held.req.peer_id, res.txs)
                     [] res.kind \in {"RequestError", "Closed"} ->
                           report_bad_message(s1, held.req.peer_id)
         IN  advance_requests(s2, idx - 1, responses)

\* the whole loop, from the last index down
advance_inflight(s, responses) ==
    LET s1 == [s EXCEPT !.inflight_requests = Held(@)]
        s2 == advance_requests(s1, Len(s1.inflight_requests) - 1, responses)
    IN  [s2 EXCEPT !.inflight_requests = Requests(@)]

\* the first occurrence of x taken out of the sequence
RECURSIVE RemoveFirst(_, _)
RemoveFirst(q, x) ==
    IF q = <<>> THEN q
    ELSE IF Head(q) = x THEN Tail(q) ELSE <<Head(q)>> \o RemoveFirst(Tail(q), x)

\* the loop over pool_imports.poll_next_unpin in poll; imports: the results of
\* the futures that are ready, in the order they are yielded
RECURSIVE advance_imports(_, _)
advance_imports(s, imports) ==
    IF imports = <<>> THEN s
    ELSE LET res == Head(imports)
             s1 == [s EXCEPT !.pool_imports = RemoveFirst(@, res.hash)]
         IN  advance_imports(IF res.ok THEN on_good_import(s1, res.hash)
                             ELSE on_bad_import(s1, res.hash), Tail(imports))

RECURSIVE drain_network_events(_, _)
drain_network_events(s, events) ==
    IF events = <<>> THEN s
    ELSE drain_network_events(on_network_event(s, Head(events)), Tail(events))

RECURSIVE drain_commands(_, _)
drain_commands(s, cmds) ==
    IF cmds = <<>> THEN s ELSE drain_commands(on_command(s, Head(cmds)), Tail(cmds))

RECURSIVE drain_transaction_events(_, _)
drain_transaction_events(s, events) ==
    IF events = <<>> THEN s
    ELSE drain_transaction_events(on_network_tx_event(s, Head(events)), Tail(events))

\* tm_poll handling the transaction events before the network events
tm_poll_transaction_events_first(s, in) ==
    LET s1 == drain_transaction_events(s, in.transaction_events)
        s2 == drain_network_events(s1, in.network_events)
        s3 == drain_commands(s2, in.commands)
        s4 == advance_inflight(s3, in.responses)
        s5 == advance_imports(s4, in.imports)
    IN  IF in.new_txs # <<>> THEN on_new_transactions(s5, in.txs, in.order) ELSE s5

\* TransactionsManager::poll; in: what each source yields in this call:
\*   network_events, commands, transaction_events : the items ready, in order
\*   responses : the result of polling each inflight request
\*   imports   : the results of the imports that are ready
\*   new_txs   : the hashes pending_transactions yields; txs is what
\*               pool.get_all(new_txs) returns, order the order of peers.iter_mut()
tm_poll(s, in) ==
    LET s1 == drain_network_events(s, in.network_events)
        s2 == drain_commands(s1, in.commands)
        s3 == drain_transaction_events(s2, in.transaction_events)
        s4 == advance_inflight(s3, in.responses)
        s5 == advance_imports(s4, in.imports)
    IN  IF in.new_txs # <<>> THEN on_new_transactions(s5, in.txs, in.order) ELSE s5

\* poll resolving once the network events stream has ended
tm_poll_result_with_events(s, in) ==
    IF "network_events" \in in.ended THEN Ready(NoAction) ELSE Pending

\* what poll returns: every while let loop is left when its source yields
\* Pending or None, and the last expression is Poll::Pending
tm_poll_result(s, in) == Pending

(***************************************************************************)
(* The steps of TransactionsManager: poll is its only entry point.         *)
(***************************************************************************)
NoTmInput == [network_events |-> <<>>, commands |-> <<>>, transaction_events |-> <<>>,
              responses |-> <<>>, imports |-> <<>>, new_txs |-> <<>>, txs |-> <<>>,
              order |-> <<>>, ended |-> {}]
NoBadImport == [hash |-> 0, forwarders |-> {}]
NoPropagation == [active |-> FALSE, order |-> <<>>, txs |-> <<>>, fresh |-> FALSE]

\* delivered after the peer handed txs to import_transactions
Deliver(d, known, peer_id, txs) ==
    IF peer_id \notin known THEN d
    ELSE [h \in DOMAIN d |->
             IF \E i \in DOMAIN txs : txs[i].hash = h /\ txs[i].recovered
             THEN d[h] \cup {peer_id} ELSE d[h]]

RECURSIVE DeliverEvents(_, _, _)
DeliverEvents(d, known, events) ==
    IF events = <<>> THEN d
    ELSE DeliverEvents(IF Head(events).kind = "IncomingTransactions"
                       THEN Deliver(d, known, Head(events).peer_id, Head(events).msg)
                       ELSE d, known, Tail(events))

\* delivered after the loop over the inflight requests polled the receivers
\* of the requests at the positions polled, in that order
RECURSIVE DeliverResponses(_, _, _, _, _)
DeliverResponses(d, known, requests, polled, responses) ==
    IF polled = <<>> THEN d
    ELSE LET pos == Head(polled)
             res == IF pos \in DOMAIN responses THEN responses[pos] ELSE StillPending
         IN  DeliverResponses(
                 IF res.kind = "Ok" THEN Deliver(d, known, requests[pos + 1].peer_id, res.txs)
                 ELSE d,
                 known, requests, Tail(polled), responses)

\* arrived after the peer handed txs to import_transactions
RECURSIVE Arrive(_, _, _, _)
Arrive(a, known, peer_id, txs) ==
    IF peer_id \notin known \/ txs = <<>> THEN a
    ELSE Arrive(IF Head(txs).recovered
                THEN [a EXCEPT ![Head(txs).hash] = Append(@, peer_id)] ELSE a,
                known, peer_id, Tail(txs))

RECURSIVE ArriveEvents(_, _, _)
ArriveEvents(a, known, events) ==
    IF events = <<>> THEN a
    ELSE ArriveEvents(IF Head(events).kind = "IncomingTransactions"
                      THEN Arrive(a, known, Head(events).peer_id, Head(events).msg)
                      ELSE a, known, Tail(events))

\* arrived after the loop over the inflight requests polled the receivers
\* of the requests at the positions polled, in that order
RECURSIVE ArriveResponses(_, _, _, _, _)
ArriveResponses(a, known, requests, polled, responses) ==
    IF polled = <<>> THEN a
    ELSE LET pos == Head(polled)
             res == IF pos \in DOMAIN responses THEN responses[pos] ELSE StillPending
         IN  ArriveResponses(
                 IF res.kind = "Ok" THEN Arrive(a, known, requests[pos + 1].peer_id, res.txs)
                 ELSE a,
                 known, requests, Tail(polled), responses)

\* tm_sessions after the network events
RECURSIVE SessionsAfter(_, _)
SessionsAfter(S, events) ==
    IF events = <<>> THEN S
    ELSE SessionsAfter(CASE Head(events).kind = "SessionEstablished" ->
                                S \cup {Head(events).peer_id}
                         [] Head(events).kind = "SessionClosed" ->
                                S \ {Head(events).peer_id}
                         [] OTHER -> S,
                       Tail(events))

\* announced after the network events
RECURSIVE AnnouncedAfter(_, _)
AnnouncedAfter(a, events) ==
    IF events = <<>> THEN a
    ELSE AnnouncedAfter(CASE Head(events).kind = "SessionEstablished" ->
                                 [a EXCEPT ![Head(events).peer_id] = Range(Head(events).pooled)]
                          [] Head(events).kind = "SessionClosed" ->
                                 [a EXCEPT ![Head(events).peer_id] = {}]
                          [] OTHER -> a,
                        Tail(events))

\* the number of peers kept in the entries of the keys S
RECURSIVE Forwards(_, _)
Forwards(by_peers, S) ==
    IF S = {} THEN 0
    ELSE LET h == CHOOSE x \in S : TRUE
         IN  Len(by_peers[h]) + Forwards(by_peers, S \ {h})

TmStore(s) ==
    /\ Forwards(s.transactions_by_peers, DOMAIN s.transactions_by_peers) <= MaxForwards
    /\ tm_peers' = s.peers
    /\ transactions_by_peers' = s.transactions_by_peers
    /\ pool_imports' = s.pool_imports
    /\ inflight_requests' = s.inflight_requests
    /\ network' = s.network
    /\ UNCHANGED <<ns_vars, pure_vars>>

TmPoll(in) ==
    LET s1 == drain_network_events(TS, in.network_events)
        s3 == drain_transaction_events(drain_commands(s1, in.commands),
                                       in.transaction_events)
        s4 == advance_inflight(s3, in.responses)
        d3 == DeliverEvents(delivered, DOMAIN s1.peers, in.transaction_events)
        d4 == DeliverResponses(d3, DOMAIN s1.peers, s3.inflight_requests,
                               s4.polled, in.responses)
        a4 == ArriveResponses(ArriveEvents(arrived, DOMAIN s1.peers, in.transaction_events),
                              DOMAIN s1.peers, s3.inflight_requests,
                              s4.polled, in.responses)
        done == {in.imports[i].hash : i \in DOMAIN in.imports}
        only_imports == in = [NoTmInput EXCEPT !.imports = in.imports]
        only_new_txs == in = [NoTmInput EXCEPT !.new_txs = in.new_txs, !.txs = in.txs,
                                               !.order = in.order]
    IN  \* the sources yield what they can: orders of the peers map as it is
        \* then, results of imports in flight, each once
        /\ \A i \in DOMAIN in.commands : IsOrder(in.commands[i].order, DOMAIN s1.peers)
        /\ in.new_txs # <<>> => IsOrder(in.order, DOMAIN s1.peers)
        /\ \A i, j \in DOMAIN in.imports : in.imports[i].hash = in.imports[j].hash => i = j
        /\ \A h \in done : \E i \in DOMAIN s4.pool_imports : s4.pool_imports[i] = h
        \* an ended stream yields nothing, and no handle no command
        /\ in.ended = tm_ended
        /\ "network_events" \in tm_ended => in.network_events = <<>>
        /\ "handles" \in tm_ended => in.commands = <<>>
        /\ "transaction_events" \in tm_ended => in.transaction_events = <<>>
        /\ "pending_transactions" \in tm_ended => in.new_txs = <<>>
        /\ TmStore(tm_poll(TS, in))
        /\ tm_result' = tm_poll_result(TS, in)
        /\ tm_sessions' = SessionsAfter(tm_sessions, in.network_events)
        /\ arrived' = [h \in DOMAIN a4 |-> IF h \in done THEN <<>> ELSE a4[h]]
        /\ UNCHANGED tm_ended
        /\ delivered' = [h \in DOMAIN d4 |-> IF h \in done THEN {} ELSE d4[h]]
        /\ imported' = in.imports
        /\ bad_import' = IF only_imports /\ Len(in.imports) = 1 /\ ~in.imports[1].ok
                         THEN [hash |-> in.imports[1].hash,
                               forwarders |-> d4[in.imports[1].hash]]
                         ELSE NoBadImport
        /\ propagation' = IF only_new_txs /\ in.new_txs # <<>>
                          THEN [active |-> TRUE, order |-> in.order, txs |-> in.txs,
                                fresh |-> \A p \in DOMAIN tm_peers :
                                             tm_peers[p].transactions.inner = <<>>]
                          ELSE NoPropagation

\* a poll whose input is not observed
Unobserved == tm_input' = NoTmInput /\ UNCHANGED announced

\* a poll whose input is observed
TmObserved(in) == TmPoll(in) /\ tm_input' = in /\ UNCHANGED announced

\* a poll whose input and announcements are observed
TmAnnounced(in) ==
    /\ TmPoll(in)
    /\ tm_input' = in
    /\ announced' = AnnouncedAfter(announced, in.network_events)

Streams == {"network_events", "handles", "transaction_events", "pending_transactions"}

\* the senders of a stream are dropped, or the last TransactionsHandle is
TmStreamEnds(stream) ==
    /\ stream \notin tm_ended
    /\ tm_ended' = tm_ended \cup {stream}
    /\ tm_result' = NotPolled
    /\ tm_input' = NoTmInput
    /\ UNCHANGED <<ns_vars, pure_vars, tm_peers, transactions_by_peers, pool_imports,
                   inflight_requests, network, delivered, imported, bad_import,
                   propagation, arrived, tm_sessions, announced>>

\* poll with one network event ready
TmNetworkEvent(event) ==
    TmPoll([NoTmInput EXCEPT !.network_events = <<event>>]) /\ Unobserved

\* poll with one IncomingTransactions event ready
TmIncomingTransactions(peer_id, msg) ==
    /\ TmPoll([NoTmInput EXCEPT !.transaction_events =
                <<[kind |-> "IncomingTransactions", peer_id |-> peer_id, msg |-> msg]>>])
    /\ Unobserved

\* poll with import futures ready
TmImported(imports) ==
    /\ imports # <<>>
    /\ TmPoll([NoTmInput EXCEPT !.imports = imports])
    /\ Unobserved

\* poll with pending transactions ready; all of them are in the pool
TmPendingTransactions(txs, order) ==
    /\ txs # <<>>
    /\ TmPoll([NoTmInput EXCEPT !.new_txs = txs, !.txs = txs, !.order = order])
    /\ Unobserved

(***************************************************************************)
(* The steps of the LruCache of its own.                                   *)
(***************************************************************************)
NoLruCall == [op |-> "none", entries |-> <<>>, returned |-> FALSE]

\* admitted after the entries are inserted into c one by one
RECURSIVE Admit(_, _, _)
Admit(a, c, entries) ==
    IF entries = <<>> THEN a
    ELSE Admit(IF LruInsertReturns(c, Head(entries)) THEN Append(a, Head(entries)) ELSE a,
               LruInsert(c, Head(entries)), Tail(entries))

LruInsertCall(x) ==
    /\ Len(admitted) < MaxInserts
    /\ lru' = LruInsert(lru, x)
    /\ lru_last' = [op |-> "insert", entries |-> <<x>>, returned |-> LruInsertReturns(lru, x)]
    /\ admitted' = Admit(admitted, lru, <<x>>)
    /\ UNCHANGED <<ns_vars, tm_vars, handle_vars, codec_vars>>

LruExtendCall(xs) ==
    /\ Len(admitted) + Len(xs) <= MaxInserts
    /\ lru' = LruExtend(lru, xs)
    /\ lru_last' = [op |-> "extend", entries |-> xs, returned |-> FALSE]
    /\ admitted' = Admit(admitted, lru, xs)
    /\ UNCHANGED <<ns_vars, tm_vars, handle_vars, codec_vars>>

(***************************************************************************)
(* NetworkHandle. A message is the variant the method builds, with the     *)
(* clone that made the call and the number of the call as its content.     *)
(***************************************************************************)
Handles == {1, 2}
\* the methods modelled, with the NetworkHandleMessage variant each sends
Methods == {"announce_block", "add_peer"}
Variant(method) ==
    CASE method = "announce_block" -> "AnnounceBlock"
      [] method = "add_peer" -> "AddPeerAddress"

\* UnboundedSender::send: never waits; Err(msg) once the receiver is gone
mpsc_send(ch, msg) ==
    IF ch.receiver_alive
    THEN [ch |-> [ch EXCEPT !.queue = Append(@, msg)], ok |-> TRUE]
    ELSE [ch |-> ch, ok |-> FALSE]

\* send_message sending the message again
send_message_twice(ch, msg) ==
    [ch |-> mpsc_send(mpsc_send(ch, msg).ch, msg).ch, outcome |-> "returned"]

\* let _ = to_manager_tx.send(msg): the result is dropped
send_message(ch, msg) == [ch |-> mpsc_send(ch, msg).ch, outcome |-> "returned"]

\* a call of the method on the clone
HandleCall(handle, method) ==
    LET msg == [variant |-> Variant(method), handle |-> handle, n |-> issued[handle] + 1]
        r == send_message(to_manager, msg)
    IN  /\ issued[1] + issued[2] < MaxSends
        /\ to_manager' = r.ch
        /\ handle_outcome' = [handle_outcome EXCEPT ![handle] = r.outcome]
        /\ issued' = [issued EXCEPT ![handle] = @ + 1]
        /\ accepted' = IF to_manager.receiver_alive
                       THEN [accepted EXCEPT ![handle] = Append(@, msg)] ELSE accepted
        /\ UNCHANGED <<ns_vars, tm_vars, lru_vars, codec_vars, manager_received>>

\* the manager takes the next message from the channel
ManagerReceives ==
    /\ to_manager.receiver_alive
    /\ to_manager.queue # <<>>
    /\ manager_received' = Append(manager_received, Head(to_manager.queue))
    /\ to_manager' = [to_manager EXCEPT !.queue = Tail(@)]
    /\ UNCHANGED <<ns_vars, tm_vars, lru_vars, codec_vars, handle_outcome, issued, accepted>>

\* the manager is dropped, and with its receiver what is in the channel
ReceiverDropped ==
    /\ to_manager.receiver_alive
    /\ to_manager' = [queue |-> <<>>, receiver_alive |-> FALSE]
    /\ UNCHANGED <<ns_vars, tm_vars, lru_vars, codec_vars, manager_received,
                   handle_outcome, issued, accepted>>

(***************************************************************************)
(* RLP, as far as NodeRecord uses it: byte strings, unsigned integers and  *)
(* the header of a list. A buffer is a sequence of bytes.                  *)
(***************************************************************************)
\* the big-endian bytes of n without leading zeros
RECURSIVE BigEndian(_)
BigEndian(n) == IF n = 0 THEN <<>> ELSE Append(BigEndian(n \div 256), n % 256)
RECURSIVE FromBigEndian(_)
FromBigEndian(b) ==
    IF b = <<>> THEN 0 ELSE FromBigEndian(SubSeq(b, 1, Len(b) - 1)) * 256 + b[Len(b)]

rlp_header(list, payload_length) ==
    IF payload_length <= 55
    THEN <<(IF list THEN 192 ELSE 128) + payload_length>>
    ELSE <<(IF list THEN 247 ELSE 183) + Len(BigEndian(payload_length))>>
             \o BigEndian(payload_length)
rlp_encode_bytes(b) ==
    IF Len(b) = 1 /\ b[1] < 128 THEN b ELSE rlp_header(FALSE, Len(b)) \o b
rlp_encode_uint(n) == rlp_encode_bytes(BigEndian(n))

Drop(buf, n) == SubSeq(buf, n + 1, Len(buf))
DecodeError == [ok |-> FALSE]

\* Header::decode: the kind and length of the item at the front of buf and
\* the buffer from its payload on
Header_decode(buf) ==
    IF buf = <<>> THEN DecodeError
    ELSE LET b == buf[1]
             long == (b >= 184 /\ b < 192) \/ b >= 248
             len_of_len == IF b >= 248 THEN b - 247 ELSE b - 183
             h == IF b < 128 THEN [ok |-> TRUE, list |-> FALSE, payload_length |-> 1,
                                   rest |-> buf]
                  ELSE IF ~long
                  THEN [ok |-> TRUE, list |-> b >= 192,
                        payload_length |-> IF b >= 192 THEN b - 192 ELSE b - 128,
                        rest |-> Tail(buf)]
                  ELSE IF Len(buf) < 1 + len_of_len \/ buf[2] = 0 THEN DecodeError
                  ELSE [ok |-> TRUE, list |-> b >= 248,
                        payload_length |-> FromBigEndian(SubSeq(buf, 2, 1 + len_of_len)),
                        rest |-> Drop(buf, 1 + len_of_len)]
         IN  IF ~h.ok THEN h
             ELSE IF long /\ h.payload_length <= 55 THEN DecodeError
             ELSE IF Len(h.rest) < h.payload_length THEN DecodeError
             ELSE IF b >= 128 /\ b < 184 /\ h.payload_length = 1 /\ h.rest[1] < 128
             THEN DecodeError
             ELSE h

\* u16::decode
rlp_decode_u16(buf) ==
    LET h == Header_decode(buf) IN
    IF ~h.ok \/ h.list \/ h.payload_length > 2 THEN DecodeError
    ELSE IF h.payload_length > 0 /\ h.rest[1] = 0 THEN DecodeError
    ELSE [ok |-> TRUE, value |-> FromBigEndian(SubSeq(h.rest, 1, h.payload_length)),
          rest |-> Drop(h.rest, h.payload_length)]

\* PeerId::decode: a string of 64 bytes
rlp_decode_id(buf) ==
    LET h == Header_decode(buf) IN
    IF ~h.ok \/ h.list \/ h.payload_length # 64 THEN DecodeError
    ELSE [ok |-> TRUE, value |-> SubSeq(h.rest, 1, 64), rest |-> Drop(h.rest, 64)]

(***************************************************************************)
(* NodeRecord. An address is its version with its octets, an id 64 bytes.  *)
(***************************************************************************)
V4(octets) == [version |-> 4, octets |-> octets]
V6(octets) == [version |-> 6, octets |-> octets]
NodeRecord(address, tcp_port, udp_port, id) ==
    [address |-> address, tcp_port |-> tcp_port, udp_port |-> udp_port, id |-> id]

\* Ipv6Addr::to_ipv4: the last four octets of an IPv4-compatible (::a.b.c.d)
\* or IPv4-mapped (::ffff:a.b.c.d) address
is_ipv4_in_ipv6(o) ==
    /\ \A i \in 1..10 : o[i] = 0
    /\ <<o[11], o[12]>> \in {<<0, 0>>, <<255, 255>>}

\* From<Octets> for IpAddr
octets_into(octets) ==
    IF octets.version = 4 THEN V4(octets.octets)
    ELSE IF is_ipv4_in_ipv6(octets.octets) THEN V4(SubSeq(octets.octets, 13, 16))
    ELSE V6(octets.octets)

Octets_encode(octets) == rlp_encode_bytes(octets.octets)

Octets_decode(buf) ==
    LET h == Header_decode(buf) IN
    IF ~h.ok \/ h.list \/ h.payload_length \notin {4, 16} THEN DecodeError
    ELSE [ok |-> TRUE,
          value |-> [version |-> IF h.payload_length = 4 THEN 4 ELSE 6,
                     octets |-> SubSeq(h.rest, 1, h.payload_length)],
          rest |-> Drop(h.rest, h.payload_length)]

NodeRecord_encode(r) ==
    LET payload == Octets_encode(r.address) \o rlp_encode_uint(r.udp_port)
                       \o rlp_encode_uint(r.tcp_port) \o rlp_encode_bytes(r.id)
    IN  rlp_header(TRUE, Len(payload)) \o payload

\* NodeRecord::decode reading tcp_port before udp_port
NodeRecord_decode_tcp_first(buf) ==
    LET rlp_head == Header_decode(buf)
        octets == Octets_decode(rlp_head.rest)
        tcp_port == rlp_decode_u16(octets.rest)
        udp_port == rlp_decode_u16(tcp_port.rest)
        id == rlp_decode_id(udp_port.rest)
    IN  IF ~rlp_head.ok \/ ~rlp_head.list THEN DecodeError
        ELSE IF ~octets.ok THEN DecodeError
        ELSE IF ~tcp_port.ok THEN DecodeError
        ELSE IF ~udp_port.ok THEN DecodeError
        ELSE IF ~id.ok THEN DecodeError
        ELSE IF Len(rlp_head.rest) - Len(id.rest) > rlp_head.payload_length THEN DecodeError
        ELSE [ok |-> TRUE,
              value |-> NodeRecord(octets_into(octets.value), tcp_port.value,
                                   udp_port.value, id.value)]

NodeRecord_decode(buf) ==
    LET rlp_head == Header_decode(buf)
        octets == Octets_decode(rlp_head.rest)
        udp_port == rlp_decode_u16(octets.rest)
        tcp_port == rlp_decode_u16(udp_port.rest)
        id == rlp_decode_id(tcp_port.rest)
    IN  IF ~rlp_head.ok \/ ~rlp_head.list THEN DecodeError
        ELSE IF ~octets.ok THEN DecodeError
        ELSE IF ~udp_port.ok THEN DecodeError
        ELSE IF ~tcp_port.ok THEN DecodeError
        ELSE IF ~id.ok THEN DecodeError
        ELSE IF Len(rlp_head.rest) - Len(id.rest) > rlp_head.payload_length THEN DecodeError
        ELSE [ok |-> TRUE,
              value |-> NodeRecord(octets_into(octets.value), tcp_port.value,
                                   udp_port.value, id.value)]

(***************************************************************************)
(* The text of a NodeRecord: a sequence of characters.                     *)
(***************************************************************************)
HexChars == <<"0", "1", "2", "3", "4", "5", "6", "7", "8", "9",
              "a", "b", "c", "d", "e", "f">>
Scheme == <<"e", "n", "o", "d", "e", ":", "/", "/">>
Discport == <<"d", "i", "s", "c", "p", "o", "r", "t">>

RECURSIVE Digits(_, _)
\* n in the base, without leading zeros; "0" for 0
Digits(n, base) ==
    IF n < base THEN <<HexChars[n + 1]>>
    ELSE Append(Digits(n \div base, base), HexChars[(n % base) + 1])

RECURSIVE hex_encode(_)
hex_encode(bytes) ==
    IF bytes = <<>> THEN <<>>
    ELSE <<HexChars[(Head(bytes) \div 16) + 1], HexChars[(Head(bytes) % 16) + 1]>>
             \o hex_encode(Tail(bytes))

\* the groups joined by the separator
RECURSIVE Join(_, _)
Join(groups, sep) ==
    IF groups = <<>> THEN <<>>
    ELSE IF Len(groups) = 1 THEN groups[1]
    ELSE groups[1] \o sep \o Join(Tail(groups), sep)

Ipv4Addr_fmt(o) == Join([i \in 1..4 |-> Digits(o[i], 10)], <<".">>)

\* Display of Ipv6Addr: ::ffff:a.b.c.d for an IPv4-mapped address, else the
\* eight groups in hexadecimal with the first longest run of two or more
\* zero groups written as ::
Ipv6Addr_fmt(o) ==
    LET seg == [i \in 1..8 |-> o[2 * i - 1] * 256 + o[2 * i]]
        run(i) == CHOOSE n \in 0..8 :
                     /\ \A k \in i..(i + n - 1) : k <= 8 /\ seg[k] = 0
                     /\ (i + n > 8 \/ seg[i + n] # 0)
        longest == CHOOSE n \in 0..8 :
                      (\E i \in 1..8 : run(i) = n) /\ (\A i \in 1..8 : run(i) <= n)
        start == CHOOSE i \in 1..8 : run(i) = longest /\ \A k \in 1..(i - 1) : run(k) < longest
        hex(a, b) == Join([i \in 1..(b - a + 1) |-> Digits(seg[a + i - 1], 16)], <<":">>)
    IN  IF (\A i \in 1..5 : seg[i] = 0) /\ seg[6] = 65535
        THEN <<":", ":", "f", "f", "f", "f", ":">> \o Ipv4Addr_fmt(SubSeq(o, 13, 16))
        ELSE IF longest < 2 THEN hex(1, 8)
        ELSE hex(1, start - 1) \o <<":", ":">> \o hex(start + longest, 8)

IpAddr_fmt(address) ==
    IF address.version = 4 THEN Ipv4Addr_fmt(address.octets) ELSE Ipv6Addr_fmt(address.octets)

\* Display for NodeRecord
NodeRecord_fmt(r) ==
    Scheme \o hex_encode(r.id) \o <<"@">> \o IpAddr_fmt(r.address) \o <<":">>
        \o Digits(r.tcp_port, 10)
        \o (IF r.tcp_port # r.udp_port
            THEN <<"?">> \o Discport \o <<"=">> \o Digits(r.udp_port, 10) ELSE <<>>)

ParseError == [ok |-> FALSE]

\* the first index of s with a character of C, 0 if there is none
FirstIn(s, C) ==
    IF \E i \in DOMAIN s : s[i] \in C
    THEN CHOOSE i \in DOMAIN s : s[i] \in C /\ \A k \in 1..(i - 1) : s[k] \notin C
    ELSE 0
\* s before and after the index; all of s before, nothing after, for 0
Before(s, i) == IF i = 0 THEN s ELSE SubSeq(s, 1, i - 1)
After(s, i) == IF i = 0 THEN <<>> ELSE SubSeq(s, i + 1, Len(s))

DigitOf(ch) == (CHOOSE i \in DOMAIN HexChars : HexChars[i] = ch) - 1
IsDigits(s, base) ==
    s # <<>> /\ \A i \in DOMAIN s : \E k \in 1..base : HexChars[k] = s[i]
RECURSIVE ValueOf(_, _)
ValueOf(s, base) ==
    IF s = <<>> THEN 0
    ELSE ValueOf(SubSeq(s, 1, Len(s) - 1), base) * base + DigitOf(s[Len(s)])

\* str::parse::<u16> and the port of a Url: decimal digits, at most 65535
parse_u16(s) ==
    IF IsDigits(s, 10) /\ Len(s) <= 5 /\ ValueOf(s, 10) <= 65535
    THEN [ok |-> TRUE, value |-> ValueOf(s, 10)] ELSE ParseError

RECURSIVE Split(_, _)
Split(s, sep) ==
    IF FirstIn(s, {sep}) = 0 THEN <<s>>
    ELSE <<Before(s, FirstIn(s, {sep}))>> \o Split(After(s, FirstIn(s, {sep})), sep)

\* Ipv4Addr::from_str: four decimal numbers up to 255 with dots between
Ipv4Addr_from_str(s) ==
    LET parts == Split(s, ".") IN
    IF /\ Len(parts) = 4
       /\ \A i \in 1..4 : /\ IsDigits(parts[i], 10) /\ Len(parts[i]) <= 3
                            /\ ValueOf(parts[i], 10) <= 255
                            /\ (Len(parts[i]) > 1 => parts[i][1] # "0")
    THEN [ok |-> TRUE, value |-> [i \in 1..4 |-> ValueOf(parts[i], 10)]]
    ELSE ParseError

\* str::parse::<PeerId>: 128 hexadecimal digits
PeerId_from_str(s) ==
    IF Len(s) = 128 /\ IsDigits(s, 16)
    THEN [ok |-> TRUE,
          value |-> [i \in 1..64 |-> DigitOf(s[2 * i - 1]) * 16 + DigitOf(s[2 * i])]]
    ELSE ParseError

\* Url::parse of a text with a scheme that is not special and an authority
\* whose host is not in brackets: the user name, the host up to the first
\* colon, the port after it and the query; Err for an empty host and for a
\* port that is not a number
Url_parse(s) ==
    LET rest == Drop(s, Len(Scheme))
        query_at == FirstIn(rest, {"?"})
        authority == Before(rest, query_at)
        at == FirstIn(authority, {"@"})
        host_port == IF at = 0 THEN authority ELSE After(authority, at)
        colon == FirstIn(host_port, {":"})
        host == Before(host_port, colon)
        port == After(host_port, colon)
    IN  IF Len(s) < Len(Scheme) \/ SubSeq(s, 1, Len(Scheme)) # Scheme THEN ParseError
        ELSE IF host = <<>> THEN ParseError
        ELSE IF port # <<>> /\ ~parse_u16(port).ok THEN ParseError
        ELSE [ok |-> TRUE,
              username |-> IF at = 0 THEN <<>> ELSE Before(authority, at),
              host |-> host,
              port |-> IF port = <<>> THEN ParseError ELSE parse_u16(port),
              query |-> After(rest, query_at)]

\* FromStr for NodeRecord; the host of such a Url is a Host::Domain
NodeRecord_from_str(s) ==
    LET url == Url_parse(s)
        address == Ipv4Addr_from_str(url.host)
        eq == FirstIn(url.query, {"="})
        has_discport == eq # 0 /\ Before(url.query, eq) = Discport
        udp_port == IF has_discport THEN parse_u16(After(url.query, eq)) ELSE url.port
        id == PeerId_from_str(url.username)
    IN  IF ~url.ok THEN ParseError
        ELSE IF ~address.ok THEN ParseError
        ELSE IF ~url.port.ok THEN ParseError
        ELSE IF ~udp_port.ok THEN ParseError
        ELSE IF ~id.ok THEN ParseError
        ELSE [ok |-> TRUE,
              value |-> NodeRecord(V4(address.value), url.port.value, udp_port.value,
                                   id.value)]

(***************************************************************************)
(* The steps on a NodeRecord.                                              *)
(***************************************************************************)
Encode ==
    /\ stage = "record"
    /\ wire' = NodeRecord_encode(nr)
    /\ stage' = "encoded"
    /\ UNCHANGED <<ns_vars, tm_vars, lru_vars, handle_vars, nr, decoded, text, parsed>>

Decode ==
    /\ stage = "encoded"
    /\ decoded' = NodeRecord_decode(wire)
    /\ stage' = "decoded"
    /\ UNCHANGED <<ns_vars, tm_vars, lru_vars, handle_vars, nr, wire, text, parsed>>

Display ==
    /\ stage = "record"
    /\ text' = NodeRecord_fmt(nr)
    /\ stage' = "displayed"
    /\ UNCHANGED <<ns_vars, tm_vars, lru_vars, handle_vars, nr, wire, decoded, parsed>>

Parse ==
    /\ stage = "displayed"
    /\ parsed' = NodeRecord_from_str(text)
    /\ stage' = "parsed"
    /\ UNCHANGED <<ns_vars, tm_vars, lru_vars, handle_vars, nr, wire, decoded, text>>

(***************************************************************************)
(* Specifications of NetworkState.                                         *)
(***************************************************************************)
\* NetworkState::new and TransactionsManager::new
InitParts ==
    /\ active_peers = EmptyMap
    /\ queued_messages = <<>>
    /\ state_fetcher = EmptyMap
    /\ poll_result = NotPolled
    /\ calls = <<>>
    /\ sessions = {}
    /\ chan_failed = {}
    /\ pushed = <<>>
    /\ cycle = NoCycle
    /\ ns_call = NoCall
    /\ tm_peers = EmptyMap
    /\ transactions_by_peers = EmptyMap
    /\ pool_imports = <<>>
    /\ inflight_requests = <<>>
    /\ network = <<>>
    /\ delivered = [h \in TxHashes |-> {}]
    /\ imported = <<>>
    /\ bad_import = NoBadImport
    /\ propagation = NoPropagation
    /\ arrived = [h \in TxHashes |-> <<>>]
    /\ tm_input = NoTmInput
    /\ tm_sessions = {}
    /\ announced = [p \in TmPeerIds |-> {}]
    /\ tm_ended = {}
    /\ tm_result = NotPolled
    /\ lru = LruNew(LruCapacity)
    /\ lru_last = NoLruCall
    /\ admitted = <<>>
    /\ to_manager = [queue |-> <<>>, receiver_alive |-> TRUE]
    /\ manager_received = <<>>
    /\ handle_outcome = [h \in Handles |-> "none"]
    /\ issued = [h \in Handles |-> 0]
    /\ accepted = [h \in Handles |-> <<>>]
    /\ wire = <<>>
    /\ decoded = DecodeError
    /\ text = <<>>
    /\ parsed = ParseError

\* The records: IPv4 and IPv6 addresses, among them the loopback address, an
\* IPv4-compatible and an IPv4-mapped one; ports at the edges of the lengths
\* of their encodings; two ids.
V4Addresses == {<<0, 0, 0, 0>>, <<10, 3, 58, 6>>, <<127, 0, 0, 1>>, <<255, 255, 255, 255>>}
V6Addresses ==
    {[i \in 1..16 |-> IF i = 16 THEN 1 ELSE 0],
     [i \in 1..16 |-> IF i > 12 THEN <<10, 3, 58, 6>>[i - 12] ELSE 0],
     [i \in 1..16 |-> IF i > 12 THEN <<10, 3, 58, 6>>[i - 12] ELSE IF i > 10 THEN 255 ELSE 0],
     [i \in 1..16 |-> IF i = 1 THEN 32 ELSE IF i \in {2, 16} THEN 1 ELSE IF i = 3 THEN 13
                      ELSE IF i = 4 THEN 184 ELSE 0],
     [i \in 1..16 |-> 255]}
Ports == {0, 127, 128, 256, 30303, 65535}
PeerIdValues == {[i \in 1..64 |-> 0], [i \in 1..64 |-> (i * 37) % 256]}
NodeRecords ==
    {NodeRecord(address, tcp_port, udp_port, id) :
        address \in {V4(o) : o \in V4Addresses} \cup {V6(o) : o \in V6Addresses},
        tcp_port \in Ports, udp_port \in Ports, id \in PeerIdValues}

\* no NodeRecord is looked at
Init ==
    /\ InitParts
    /\ nr = NodeRecord(V4(<<0, 0, 0, 0>>), 0, 0, <<>>)
    /\ stage = "none"

\* a NodeRecord is given
InitRecord ==
    /\ InitParts
    /\ nr \in NodeRecords
    /\ stage = "record"

ClientAnswers == {"Some", "None", "Err"}

(***************************************************************************)
(* The history variable cycle: phase 1 after announce_new_block(hash),     *)
(* phase 2 after the announce_new_block_hash(hash) that follows it. It     *)
(* keeps the active peers, the peers lacking the hash and the actions      *)
(* pushed (first) of phase 1, and counts the block reports since.          *)
(***************************************************************************)
CycleOff == cycle' = NoCycle
CycleStarts(hash) ==
    cycle' = [phase |-> 1, hash |-> hash, active |-> DOMAIN active_peers,
              lacking |-> Lacking(NS, hash), first |-> pushed', reports |-> 0]
CycleEnds(hash) ==
    cycle' = IF cycle.phase = 1 /\ cycle.hash = hash
             THEN [cycle EXCEPT !.phase = 2] ELSE NoCycle
CycleReport ==
    /\ cycle.phase = 1 => cycle.reports < MaxReports
    /\ cycle' = IF cycle.phase = 1 THEN [cycle EXCEPT !.reports = @ + 1] ELSE NoCycle
\* a poll that drops no peer leaves the cycle going
CyclePolled ==
    cycle' = IF cycle.phase = 1 /\ DOMAIN active_peers' = DOMAIN active_peers
             THEN cycle ELSE NoCycle

\* Sessions only.
NextSessions ==
    \/ \E peer \in PeerIds, hash \in BlockHashes, answer \in ClientAnswers :
          OnSessionActivated(peer, hash, answer) /\ CycleOff /\ Unseen
    \/ \E peer \in PeerIds : OnSessionClosed(peer) /\ CycleOff /\ Unseen

SpecSessions == Init /\ [][NextSessions]_vars

\* the newest block: a peer whose status names it is never advanced
TopHash == CHOOSE h \in BlockHashes :
              \A g \in BlockHashes : header_number(g) <= header_number(h)

\* Block gossip. Between announcements (queue drained) sessions come and go
\* and peers report blocks; a block is announced in two phases, with block
\* reports and polls in between.
NextAnnounce ==
    \/ /\ queued_messages = <<>>
       /\ \E peer \in PeerIds : OnSessionActivated(peer, TopHash, "Some") /\ CycleOff /\ Unseen
    \/ /\ queued_messages = <<>>
       /\ \E peer \in PeerIds : OnSessionClosed(peer) /\ CycleOff /\ Unseen
    \/ \E peer \in PeerIds, hash \in BlockHashes : OnNewBlock(peer, hash) /\ CycleReport /\ Unseen
    \/ /\ queued_messages = <<>>
       /\ \E hash \in BlockHashes, order \in Orders(DOMAIN active_peers) :
             AnnounceNewBlock(hash, order) /\ CycleStarts(hash) /\ Unseen
    \/ /\ cycle.phase = 1
       /\ \E order \in Orders(DOMAIN active_peers) :
             AnnounceNewBlockHash(cycle.hash, order) /\ CycleEnds(cycle.hash) /\ Unseen
    \/ PollQueued /\ CyclePolled /\ Unseen

SpecAnnounce == Init /\ [][NextAnnounce]_vars

\* The request and response life cycle: two peers, one block.
CorePeers == {1, 2}
RequestKinds == {"BlockHeaders", "BlockBodies"}
FetchActions(peers, kinds) == [peer_id : peers, request : kinds, sent : BOOLEAN]

Answers == {"Pending", "Ok", "Err"}

Next ==
    \/ \E peer \in CorePeers : OnSessionActivated(peer, TopHash, "Some") /\ CycleOff /\ Unseen
    \/ \E peer \in CorePeers : OnSessionClosed(peer) /\ CycleOff /\ Unseen
    \/ \E order \in Orders(DOMAIN active_peers) :
          AnnounceNewBlock(TopHash, order) /\ CycleOff /\ Unseen
    \/ \E order \in Orders(DOMAIN active_peers) :
          AnnounceNewBlockHash(TopHash, order) /\ CycleOff /\ Unseen
    \/ PollQueued /\ CycleOff /\ Unseen
    \/ \E fetch \in FetchActions(CorePeers, RequestKinds) :
          PollSources(<<>>, <<fetch>>, <<>>, RequestKinds, {"Pending"}) /\ CycleOff /\ Unseen
    \/ PollSources(<<>>, <<>>, <<>>, RequestKinds, Answers) /\ CycleOff /\ Unseen

Spec == Init /\ [][Next]_vars

\* The same steps when the task that owns the NetworkState keeps polling it:
\* a poll that can change something is not put off forever. Nothing obliges
\* the session manager to activate or close a session.
PollSteps ==
    \/ PollQueued /\ CycleOff /\ Unseen
    \/ \E fetch \in FetchActions(CorePeers, RequestKinds) :
          PollSources(<<>>, <<fetch>>, <<>>, RequestKinds, {"Pending"}) /\ CycleOff /\ Unseen
    \/ PollSources(<<>>, <<>>, <<>>, RequestKinds, Answers) /\ CycleOff /\ Unseen

SpecPolled == Init /\ [][Next]_vars /\ WF_vars(PollSteps)

\* The queue of actions: announcements, discovery events and peer actions
\* fill it in any interleaving, poll empties it. The remote peer is the one
\* discovery and the peers manager talk about.
RemotePeer == CHOOSE p \in PeerIds : p \notin CorePeers
DiscoveryEvents == [kind : {"Discovered", "EnrForkId"}, peer_id : {RemotePeer}]
PeerActions ==
    [kind : {"Connect", "DisconnectBannedIncoming", "DiscoveryBanPeerId", "DiscoveryBanIp",
             "PeerAdded", "PeerRemoved", "BanPeer", "UnBanPeer"},
     peer_id : {RemotePeer}, reason : {"None"}]
    \cup [kind : {"Disconnect"}, peer_id : {RemotePeer}, reason : {"None", "TooManyPeers"}]
UpTo2(S) == UpTo1(S) \cup {<<x, y>> : x \in S, y \in S}

NextQueue ==
    \/ \E peer \in CorePeers : OnSessionActivated(peer, TopHash, "Some") /\ CycleOff /\ Unseen
    \/ \E peer \in CorePeers : OnSessionClosed(peer) /\ CycleOff /\ Unseen
    \/ \E order \in Orders(DOMAIN active_peers) :
          AnnounceNewBlock(TopHash, order) /\ CycleOff /\ Unseen
    \/ \E order \in Orders(DOMAIN active_peers) :
          AnnounceNewBlockHash(TopHash, order) /\ CycleOff /\ Unseen
    \/ PollQueued /\ CycleOff /\ Unseen
    \/ \E discovery \in UpTo1(DiscoveryEvents), peer_actions \in UpTo2(PeerActions) :
          PollSources(discovery, <<>>, peer_actions, {}, {"Pending"}) /\ CycleOff /\ Unseen

SpecQueue == Init /\ [][NextQueue]_vars

\* Sessions only, every call observed: the status of a peer names either
\* block, and the client knows the block, does not know it, or fails.
NextActivations ==
    \/ \E peer \in PeerIds, hash \in BlockHashes, answer \in ClientAnswers :
          /\ OnSessionActivated(peer, hash, answer) /\ CycleOff
          /\ Seen([NsCall("on_session_activated", peer, hash) EXCEPT !.answer = answer])
    \/ \E peer \in PeerIds :
          /\ OnSessionClosed(peer) /\ CycleOff
          /\ Seen(NsCall("on_session_closed", peer, 0))

SpecActivations == Init /\ [][NextActivations]_vars

\* The requests of the fetcher and their responses, every call observed:
\* sessions of two peers come and go, the fetcher issues a request for either
\* of them, active or not, the pending responses resolve, and a block hash is
\* announced. BlockResponseOutcome::Request names a peer: the fetcher may
\* follow a response up with a request for any peer.
Redirected(in, target) ==
    [in EXCEPT !.outcome = [p \in DOMAIN @ |-> [@[p] EXCEPT !.peer_id = target[p]]]]

NextRequests ==
    \/ \E peer \in CorePeers :
          /\ OnSessionActivated(peer, TopHash, "Some") /\ CycleOff
          /\ Seen(NsCall("on_session_activated", peer, TopHash))
    \/ \E peer \in CorePeers :
          /\ OnSessionClosed(peer) /\ CycleOff
          /\ Seen(NsCall("on_session_closed", peer, 0))
    \/ \E fetch \in FetchActions(CorePeers, RequestKinds) :
          PollSourcesSeen(<<>>, <<fetch>>, <<>>, RequestKinds, {"Pending"}) /\ CycleOff
    \/ /\ queued_messages = <<>>
       /\ \E in \in PollInputs(<<>>, <<>>, <<>>, RequestKinds, Answers) :
          \E target \in [DOMAIN in.outcome -> CorePeers] :
             /\ Poll(Redirected(in, target)) /\ CycleOff
             /\ Seen(PollCall(Redirected(in, target)))
    \/ /\ queued_messages = <<>>
       /\ \E order \in Orders(DOMAIN active_peers) :
             /\ AnnounceNewBlockHash(TopHash, order) /\ CycleOff
             /\ Seen([NsCall("announce_new_block_hash", 0, TopHash) EXCEPT !.order = order])
    \/ PollQueuedSeen /\ CycleOff

SpecRequests == Init /\ [][NextRequests]_vars

\* The dispatch of the peers manager's actions, every call observed: the
\* session of peer 1 comes and goes, discovery reports on the remote peer and
\* the peers manager yields up to two actions about peer 1, active or not.
DispatchPeer == CHOOSE p \in CorePeers : TRUE
DispatchActions ==
    [kind : {"Connect", "DisconnectBannedIncoming", "DiscoveryBanPeerId", "DiscoveryBanIp",
             "PeerAdded", "PeerRemoved", "BanPeer", "UnBanPeer"},
     peer_id : {DispatchPeer}, reason : {"None"}]
    \cup [kind : {"Disconnect"}, peer_id : {DispatchPeer}, reason : {"None", "TooManyPeers"}]

NextDispatch ==
    \/ /\ OnSessionActivated(DispatchPeer, TopHash, "Some") /\ CycleOff
       /\ Seen(NsCall("on_session_activated", DispatchPeer, TopHash))
    \/ /\ OnSessionClosed(DispatchPeer) /\ CycleOff
       /\ Seen(NsCall("on_session_closed", DispatchPeer, 0))
    \/ \E discovery \in UpTo1(DiscoveryEvents), peer_actions \in UpTo2(DispatchActions) :
          PollSourcesSeen(discovery, <<>>, peer_actions, {}, {"Pending"}) /\ CycleOff
    \/ PollQueuedSeen /\ CycleOff

SpecDispatch == Init /\ [][NextDispatch]_vars

\* The best block of the peers, every call observed: sessions of two peers
\* come and go with a status naming either block, the newest block is
\* announced in full and by its hash (the hash also twice in a row), peers
\* report it, the best block of a peer is updated from outside, and a request
\* that cannot be sent costs a peer its place among the active peers. The
\* queue is drained before anything but a repeated announcement.
NextBlocks ==
    \/ /\ queued_messages = <<>>
       /\ \E peer \in CorePeers, hash \in BlockHashes :
             /\ OnSessionActivated(peer, hash, "Some") /\ CycleOff
             /\ Seen(NsCall("on_session_activated", peer, hash))
    \/ /\ queued_messages = <<>>
       /\ \E peer \in CorePeers :
             /\ OnSessionClosed(peer) /\ CycleOff
             /\ Seen(NsCall("on_session_closed", peer, 0))
    \/ /\ queued_messages = <<>>
       /\ \E peer \in CorePeers :
             /\ OnNewBlock(peer, TopHash) /\ CycleOff
             /\ Seen(NsCall("on_new_block", peer, TopHash))
    \/ /\ queued_messages = <<>>
       /\ \E order \in Orders(DOMAIN active_peers) :
             /\ AnnounceNewBlock(TopHash, order) /\ CycleOff
             /\ Seen([NsCall("announce_new_block", 0, TopHash) EXCEPT !.order = order])
    \/ /\ queued_messages = <<>> \/ ns_call.op = "announce_new_block_hash"
       /\ \E order \in Orders(DOMAIN active_peers) :
             /\ AnnounceNewBlockHash(TopHash, order) /\ CycleOff
             /\ Seen([NsCall("announce_new_block_hash", 0, TopHash) EXCEPT !.order = order])
    \/ /\ queued_messages = <<>>
       /\ \E peer \in CorePeers, hash \in BlockHashes :
             /\ UpdatePeerBlock(peer, hash) /\ CycleOff
             /\ Seen(NsCall("update_peer_block", peer, hash))
    \/ \E peer \in CorePeers :
          PollSourcesSeen(<<>>, <<[peer_id |-> peer, request |-> "BlockHeaders",
                                   sent |-> FALSE]>>, <<>>, {}, {"Pending"}) /\ CycleOff
    \/ PollQueuedSeen /\ CycleOff

SpecBlocks == Init /\ [][NextBlocks]_vars

(***************************************************************************)
(* Specifications of TransactionsManager.                                  *)
(***************************************************************************)
SessionEstablished(peer_id) ==
    [kind |-> "SessionEstablished", peer_id |-> peer_id, pooled |-> <<>>]
SessionClosed(peer_id) == [kind |-> "SessionClosed", peer_id |-> peer_id]

\* Propagation: sessions come and go, the pool announces a new transaction.
\* Five peers are the least for which a peer gets hashes only.
NewTxs == {<<h>> : h \in {1}}

NextPropagate ==
    \/ \E peer_id \in TmPeerIds \ DOMAIN tm_peers :
          TmNetworkEvent(SessionEstablished(peer_id))
    \/ \E peer_id \in DOMAIN tm_peers : TmNetworkEvent(SessionClosed(peer_id))
    \/ \E txs \in NewTxs, order \in Orders(DOMAIN tm_peers) :
          TmPendingTransactions(txs, order)

SpecPropagate == Init /\ [][NextPropagate]_vars

\* Imports: two peers deliver transactions, the pool answers the imports.
ImportPeers == {1, 2}
\* a transaction comes with a signer that recovers, or, for one hash, not
IncomingTxs == [hash : TxHashes, recovered : {TRUE}] \cup
               [hash : {CHOOSE h \in TxHashes : TRUE}, recovered : {FALSE}]
ImportResults == [hash : TxHashes, ok : BOOLEAN]

NextImports ==
    \/ \E peer_id \in ImportPeers \ DOMAIN tm_peers :
          TmNetworkEvent(SessionEstablished(peer_id))
    \/ \E peer_id \in DOMAIN tm_peers : TmNetworkEvent(SessionClosed(peer_id))
    \/ \E peer_id \in ImportPeers, msg \in UpTo2(IncomingTxs) :
          TmIncomingTransactions(peer_id, msg)
    \/ \E imports \in UpTo2(ImportResults) : TmImported(imports)

SpecImports == Init /\ [][NextImports]_vars

\* Malformed transactions: one peer delivers messages whose transactions
\* recover a signer or not; the input of every poll is observed.
MalformedPeers == {1}
IncomingTransactions(peer_id, msg) ==
    [kind |-> "IncomingTransactions", peer_id |-> peer_id, msg |-> msg]

NextMalformed ==
    \/ \E peer_id \in MalformedPeers \ DOMAIN tm_peers :
          TmObserved([NoTmInput EXCEPT !.network_events = <<SessionEstablished(peer_id)>>])
    \/ \E peer_id \in DOMAIN tm_peers :
          TmObserved([NoTmInput EXCEPT !.network_events = <<SessionClosed(peer_id)>>])
    \/ \E peer_id \in MalformedPeers, msg \in UpTo2(IncomingTxs) \ {<<>>} :
          TmObserved([NoTmInput EXCEPT !.transaction_events =
                          <<IncomingTransactions(peer_id, msg)>>])
    \/ \E imports \in UpTo1(ImportResults) \ {<<>>} :
          TmObserved([NoTmInput EXCEPT !.imports = imports])

SpecMalformed == Init /\ [][NextMalformed]_vars

\* Sessions of the transactions task: sessions are established, also for
\* a peer that has one, and closed, also for a peer that has none; peers
\* deliver a transaction.
SessionEstablishedWith(peer_id, pooled) ==
    [kind |-> "SessionEstablished", peer_id |-> peer_id, pooled |-> pooled]
\* what pool.pooled_transactions() returns
PoolContents == {<<>>, <<2, 1>>}
SessionEvents ==
    {SessionEstablishedWith(peer_id, pooled) : peer_id \in ImportPeers, pooled \in PoolContents}
        \cup {SessionClosed(peer_id) : peer_id \in ImportPeers}
Idle == [NoTmInput EXCEPT !.ended = tm_ended]

NextTmSessions ==
    \/ \E events \in UpTo2(SessionEvents) :
          TmObserved([Idle EXCEPT !.network_events = events])
    \/ \E peer_id \in ImportPeers, h \in TxHashes :
          TmObserved([Idle EXCEPT !.transaction_events =
                <<IncomingTransactions(peer_id, <<[hash |-> h, recovered |-> TRUE]>>)>>])

SpecTmSessions == Init /\ [][NextTmSessions]_vars

\* The end of the streams: one peer comes, delivers and goes, imports
\* resolve, the pool announces a transaction, and the streams end one by one.
NextTmStreams ==
    \/ \E event \in {SessionEstablished(1), SessionClosed(1)} :
          TmObserved([Idle EXCEPT !.network_events = <<event>>])
    \/ \E h \in TxHashes :
          TmObserved([Idle EXCEPT !.transaction_events =
                <<IncomingTransactions(1, <<[hash |-> h, recovered |-> TRUE]>>)>>])
    \/ \E imports \in UpTo1(ImportResults) \ {<<>>} :
          TmObserved([Idle EXCEPT !.imports = imports])
    \/ \E txs \in NewTxs, order \in Orders(DOMAIN tm_peers) :
          TmObserved([Idle EXCEPT !.new_txs = txs, !.txs = txs, !.order = order])
    \/ TmObserved(Idle)
    \/ \E stream \in Streams : TmStreamEnds(stream)

SpecTmStreams == Init /\ [][NextTmStreams]_vars

\* The pool as the handlers see it: its hashes when the call is made.
\* pool.retain_unknown(&mut hashes) keeps the hashes the pool lacks
retain_unknown(pool, hashes) == SelectSeq(hashes, LAMBDA h : h \notin pool)
\* pool.get_all(hashes) gives the transactions of the pool among the hashes
get_all(pool, hashes) == SelectSeq(hashes, LAMBDA h : h \in pool)

\* sent: whether the peer's request_tx takes the request
IncomingPooledTransactionHashes(peer_id, msg, pool, sent) ==
    [kind |-> "IncomingPooledTransactionHashes", peer_id |-> peer_id, msg |-> msg,
     pool |-> pool, unknown |-> retain_unknown(pool, msg), sent |-> sent]
GetPooledTransactions(peer_id, request, pool) ==
    [kind |-> "GetPooledTransactions", peer_id |-> peer_id, request |-> request,
     pool |-> pool, found |-> get_all(pool, request)]

\* Announcements of and requests for pooled transactions, the input of every
\* poll observed: the session of one peer comes and goes, the other peer
\* never has one; either peer announces hashes of which the pool knows none,
\* some or all, asks for transactions or delivers transactions of which one
\* recovers no signer, while at most one peer waits for an import; the import
\* of the hash succeeds.
MaxTracked == 2
PooledPeer == CHOOSE p \in ImportPeers : TRUE
HashLists == {<<1>>, <<2, 1>>}
Pools == {{}, {1}, {1, 2}}
Deliveries == {<<[hash |-> 1, recovered |-> FALSE]>>,
               <<[hash |-> 1, recovered |-> TRUE], [hash |-> 1, recovered |-> FALSE]>>}

NextTmPooled ==
    \/ /\ PooledPeer \notin DOMAIN tm_peers
       /\ TmObserved([Idle EXCEPT !.network_events = <<SessionEstablished(PooledPeer)>>])
    \/ /\ PooledPeer \in DOMAIN tm_peers
       /\ TmObserved([Idle EXCEPT !.network_events = <<SessionClosed(PooledPeer)>>])
    \/ /\ Len(inflight_requests) < MaxTracked
       /\ \E peer_id \in ImportPeers, msg \in HashLists, pool \in Pools, sent \in BOOLEAN :
             TmObserved([Idle EXCEPT !.transaction_events =
                            <<IncomingPooledTransactionHashes(peer_id, msg, pool, sent)>>])
    \/ \E peer_id \in ImportPeers, request \in HashLists, pool \in Pools :
          TmObserved([Idle EXCEPT !.transaction_events =
                         <<GetPooledTransactions(peer_id, request, pool)>>])
    \/ /\ \A hash \in DOMAIN transactions_by_peers : Len(transactions_by_peers[hash]) <= 1
       /\ \E peer_id \in ImportPeers, msg \in Deliveries :
             TmObserved([Idle EXCEPT !.transaction_events =
                            <<IncomingTransactions(peer_id, msg)>>])
    \/ TmObserved([Idle EXCEPT !.imports = <<[hash |-> 1, ok |-> TRUE]>>])

SpecTmPooled == Init /\ [][NextTmPooled]_vars

\* The requests in flight, the input of every poll observed: the sessions of
\* two peers are established and the peers announce a hash the pool lacks;
\* the requests in flight are answered, fail or stay pending in any
\* combination while at most one peer waits for the import of the hash; the
\* import succeeds.
MaxInflight == 3
ResponseShapes ==
    {StillPending, [kind |-> "RequestError", txs |-> <<>>], [kind |-> "Closed", txs |-> <<>>],
     [kind |-> "Ok", txs |-> <<[hash |-> 1, recovered |-> TRUE]>>]}
\* what polling the receivers of n requests can give, by position
Responses(n) == [0..(n - 1) -> ResponseShapes]

NextTmInflight ==
    \/ \E peer_id \in ImportPeers \ DOMAIN tm_peers :
          TmObserved([Idle EXCEPT !.network_events = <<SessionEstablished(peer_id)>>])
    \/ /\ Len(inflight_requests) < MaxInflight
       /\ \E peer_id \in DOMAIN tm_peers :
             TmObserved([Idle EXCEPT !.transaction_events =
                            <<IncomingPooledTransactionHashes(peer_id, <<1>>, {}, TRUE)>>])
    \/ /\ inflight_requests # <<>>
       /\ \A hash \in DOMAIN transactions_by_peers : Len(transactions_by_peers[hash]) <= 1
       /\ \E responses \in Responses(Len(inflight_requests)) :
             TmObserved([Idle EXCEPT !.responses = responses])
    \/ TmObserved([Idle EXCEPT !.imports = <<[hash |-> 1, ok |-> TRUE]>>])

SpecTmInflight == Init /\ [][NextTmInflight]_vars

\* The order within a poll, the input of every poll observed: a session event
\* of one peer, a PropagateHash command and a message with transactions of
\* that peer are ready in the same poll in any combination; the session of
\* another peer is established; the pool announces a transaction; the import
\* of the hash succeeds.
PropagateHash(txs, order) == [txs |-> txs, order |-> order]
OrderEvents == {SessionEstablishedWith(PooledPeer, pooled) : pooled \in PoolContents}
                  \cup {SessionClosed(PooledPeer)}
                  \cup {SessionEstablished(peer_id) : peer_id \in ImportPeers \ {PooledPeer}}
OrderMessages ==
    {IncomingTransactions(PooledPeer, msg) :
        msg \in {<<[hash |-> 1, recovered |-> TRUE]>>,
                 <<[hash |-> 1, recovered |-> TRUE], [hash |-> 2, recovered |-> FALSE]>>}}

NextTmOrder ==
    \/ \E events \in UpTo1(OrderEvents), messages \in UpTo1(OrderMessages) :
          \/ /\ events # <<>> \/ messages # <<>>
             /\ TmAnnounced([Idle EXCEPT !.network_events = events,
                                        !.transaction_events = messages])
          \/ \E order \in Orders(SessionsAfter(DOMAIN tm_peers, events)) :
                TmAnnounced([Idle EXCEPT !.network_events = events,
                                        !.commands = <<PropagateHash(<<1>>, order)>>,
                                        !.transaction_events = messages])
    \/ \E txs \in NewTxs, order \in Orders(DOMAIN tm_peers) :
          TmAnnounced([Idle EXCEPT !.new_txs = txs, !.txs = txs, !.order = order])
    \/ TmAnnounced([Idle EXCEPT !.imports = <<[hash |-> 1, ok |-> TRUE]>>])

SpecTmOrder == Init /\ [][NextTmOrder]_vars

\* The cache alone: entries are inserted one by one and in pairs.
LruEntries == {1, 2, 3, 4}
Pairs(S) == {<<x, y>> : x \in S, y \in S}

NextLru ==
    \/ \E x \in LruEntries : LruInsertCall(x)
    \/ \E xs \in Pairs(LruEntries) : LruExtendCall(xs)

SpecLru == Init /\ [][NextLru]_vars

\* The caches of the peers: one peer of each kind gets a session and reports
\* hashes, while entries are inserted into the cache of small capacity.
CachePeer == 1
CacheEntries == {1, 2, 3}

NextCaches ==
    \/ \E hash \in BlockHashes : OnSessionActivated(CachePeer, hash, "Some") /\ CycleOff /\ Unseen
    \/ OnSessionClosed(CachePeer) /\ CycleOff /\ Unseen
    \/ \E hashes \in UpTo2(BlockHashes) \ {<<>>} :
          OnNewBlockHashes(CachePeer, hashes) /\ CycleOff /\ Unseen
    \/ \E event \in {SessionEstablished(CachePeer), SessionClosed(CachePeer)} :
          TmNetworkEvent(event)
    \/ \E h \in TxHashes :
          TmIncomingTransactions(CachePeer, <<[hash |-> h, recovered |-> TRUE]>>)
    \/ \E x \in CacheEntries : LruInsertCall(x)

SpecCaches == Init /\ [][NextCaches]_vars

\* The handle: two clones call methods in any interleaving while the
\* manager receives, until it is dropped.
NextHandle ==
    \/ \E handle \in Handles, method \in Methods : HandleCall(handle, method)
    \/ ManagerReceives
    \/ ReceiverDropped

SpecHandle == Init /\ [][NextHandle]_vars

\* A NodeRecord is encoded and decoded, displayed and parsed.
NextRecord == Encode \/ Decode \/ Display \/ Parse

SpecRecord == InitRecord /\ [][NextRecord]_vars

(***************************************************************************)
(* Claims.                                                                 *)
(***************************************************************************)
PeersOf(actions) == {actions[i].peer_id : i \in DOMAIN actions}
KindsOf(actions) == {actions[i].kind : i \in DOMAIN actions}
HashesOf(actions) == {actions[i].hash : i \in DOMAIN actions}
\* no peer is the target of two of the actions
DistinctPeers(actions) ==
    \A i, j \in DOMAIN actions : actions[i].peer_id = actions[j].peer_id => i = j

\* C1, as stated: a PeerId is a key of active_peers exactly when
\* on_session_activated fired for it with no on_session_closed since. A poll
\* that finds the peer's response channel closed breaks it.
C1_AsClaimed == DOMAIN active_peers = sessions

\* C1, amended: a PeerId is a key of active_peers exactly when
\* on_session_activated fired for it and since then neither on_session_closed
\* fired for it nor did a poll find its pending response channel closed.
C1_ActiveUnlessClosedOrChannelFailed == DOMAIN active_peers = sessions \ chan_failed

\* a poll dropped peer 1 for its closed channel while peer 2 stays active
C1_Witness ==
    /\ sessions = {1, 2}
    /\ chan_failed = {1}
    /\ DOMAIN active_peers = {2}
    /\ poll_result = Pending

\* C2: after any sequence of on_session_activated (for peers that are not
\* active) and on_session_closed calls, the keys of active_peers are exactly
\* the open sessions and num_active_peers() is their number.
C2_ActivePeersAreOpenSessions ==
    /\ DOMAIN active_peers = sessions
    /\ num_active_peers(NS) = Cardinality(sessions)

\* peers 1 and 3 are active, each with the hash of its status, peer 2 is not
C2_Witness ==
    /\ sessions = {1, 3}
    /\ num_active_peers(NS) = 2
    /\ active_peers[1].best_hash = 1
    /\ active_peers[3].best_hash = 2

\* C3: one call of announce_new_block(H) with the active peers P pushes
\* exactly min(|{p in P : H not in p.blocks}|, floor(sqrt(|P|)) + 1) actions,
\* all of them NewBlock for H, to distinct peers that lacked H.
C3_AnnounceNewBlockCount ==
    cycle.phase = 1 =>
        /\ Len(cycle.first) = Min(Cardinality(cycle.lacking),
                                  isqrt(Cardinality(cycle.active)) + 1)
        /\ KindsOf(cycle.first) \subseteq {"NewBlock"}
        /\ HashesOf(cycle.first) \subseteq {cycle.hash}
        /\ PeersOf(cycle.first) \subseteq cycle.lacking
        /\ DistinctPeers(cycle.first)

\* three peers lack the block and only floor(sqrt(3)) + 1 = 2 are sent it
C3_Witness ==
    /\ cycle.phase = 1
    /\ Cardinality(cycle.active) = 3
    /\ Cardinality(cycle.lacking) = 3
    /\ Len(cycle.first) = 2
    /\ pushed = cycle.first

\* what C4 says of a finished cycle: first are the actions of phase 1,
\* pushed those of phase 2
CycleCoversLacking ==
    /\ KindsOf(pushed) \subseteq {"NewBlockHashes"}
    /\ HashesOf(pushed) \subseteq {cycle.hash}
    /\ DistinctPeers(pushed)
    /\ PeersOf(pushed) = cycle.lacking \ PeersOf(cycle.first)
    /\ PeersOf(cycle.first) \cap PeersOf(pushed) = {}
    /\ PeersOf(cycle.first) \cup PeersOf(pushed) = cycle.lacking

\* C4 as stated: announce_new_block(H) followed by announce_new_block_hash(H)
\* with no session event in between gives every peer that lacked H exactly
\* one action, NewBlock or NewBlockHashes, and a peer that had H none.
C4_AsClaimed == cycle.phase = 2 => CycleCoversLacking

\* C4 as amended: the same, when in between there was no session event and
\* no peer reported a block (on_new_block, on_new_block_hashes).
C4_OneActionPerLackingPeer ==
    (cycle.phase = 2 /\ cycle.reports = 0) => CycleCoversLacking

\* two of three lacking peers got the block, the third gets the hash
C4_Witness ==
    /\ cycle.phase = 2
    /\ cycle.reports = 0
    /\ Cardinality(cycle.lacking) = 3
    /\ Len(cycle.first) = 2
    /\ Len(pushed) = 1

\* C5: a NewBlock action that poll hands out had its block hash inserted into
\* the target peer's blocks cache by the call that queued it, before poll
\* emits it.
C5_NewBlockCachedBeforeEmitted ==
    (poll_result.ready /\ poll_result.msg.kind = "NewBlock") => poll_result.msg.cached

\* poll handed out a NewBlock for a peer whose cache holds the hash
C5_Witness ==
    /\ poll_result.ready
    /\ poll_result.msg.kind = "NewBlock"
    /\ poll_result.msg.peer_id \in DOMAIN active_peers
    /\ LruContains(active_peers[poll_result.msg.peer_id].blocks, poll_result.msg.hash)

\* C6: the queue is handed out first in, first out, one action per Ready: in
\* every step the queue before, followed by what the step pushed, is what poll
\* returned (if it returned an action) followed by the queue after; poll
\* returns Pending only with the queue empty.
C6_PollIsFifo ==
    [][ /\ queued_messages \o pushed' =
             (IF poll_result'.ready THEN <<poll_result'.msg>> ELSE <<>>) \o queued_messages'
        /\ poll_result' = Pending => queued_messages' = <<>> ]_vars

\* poll handed out the oldest action while two different newer ones wait
C6_Witness ==
    /\ poll_result.ready
    /\ Len(queued_messages) >= 2
    /\ queued_messages[1] # queued_messages[2]
    /\ poll_result.msg # queued_messages[1]
    /\ poll_result.msg.kind = "DiscoveredEnrForkId"

\* the sends of transactions or hashes among the calls
Sends(calls_made) ==
    {i \in DOMAIN calls_made :
        calls_made[i].fn \in {"send_transactions", "send_transactions_hashes"}}

\* C7: propagate_transactions sends a peer no hash its cache held when the
\* call started, and every hash it sends is in the peer's cache afterwards
\* (the filter inserts it before the send).
C7_PropagateSendsOnlyUnknown ==
    [][ propagation'.active =>
          \A i \in Sends(network') : \A k \in DOMAIN network'[i].arg :
              LET peer_id == network'[i].peer_id
                  hash == network'[i].arg[k]
              IN  /\ peer_id \in DOMAIN tm_peers
                  /\ ~LruContains(tm_peers[peer_id].transactions, hash)
                  /\ LruContains(tm_peers'[peer_id].transactions, hash) ]_vars

\* a propagation sent full transactions to one peer, hashes to another and
\* nothing to a third, which knew the transaction
C7_Witness ==
    /\ propagation.active
    /\ \E i \in Sends(network) : network[i].fn = "send_transactions"
    /\ \E i \in Sends(network) : network[i].fn = "send_transactions_hashes"
    /\ \E p \in DOMAIN tm_peers : \A i \in Sends(network) : network[i].peer_id # p

\* C8, as stated: over n peers with empty caches, exactly the first
\* floor(sqrt(n)) + 1 peers of the iteration get the full transactions and the
\* others get hashes. The code also sends full transactions to the peer at
\* index floor(sqrt(n)) + 1.
C8_AsClaimed ==
    (propagation.active /\ propagation.fresh) =>
        LET n == Len(propagation.order)
            max_num_full == isqrt(n) + 1
        IN  \A i \in 1..n :
              LET to_peer == {k \in Sends(network) :
                                 network[k].peer_id = propagation.order[i]}
              IN  /\ Cardinality(to_peer) = 1
                  /\ \A k \in to_peer :
                        network[k].fn = IF i <= max_num_full THEN "send_transactions"
                                        ELSE "send_transactions_hashes"

\* C9: a hash is a key of transactions_by_peers exactly when an import
\* future for it is in flight in pool_imports, and a hash whose import just
\* succeeded has no entry.
C9_EntryIffImportInFlight ==
    /\ DOMAIN transactions_by_peers = Range(pool_imports)
    /\ \A i \in DOMAIN imported :
          imported[i].ok => imported[i].hash \notin DOMAIN transactions_by_peers

\* the import of one hash just succeeded while the other hash, delivered by
\* both peers, is still being imported
C9_Witness ==
    /\ \E i \in DOMAIN imported : imported[i].ok /\ imported[i].hash = 1
    /\ pool_imports = <<2>>
    /\ DOMAIN transactions_by_peers = {2}
    /\ Range(transactions_by_peers[2]) = ImportPeers

\* the BadTransactions reports among the calls that name the peer
BadReports(calls_made, peer_id) ==
    {i \in DOMAIN calls_made : /\ calls_made[i].fn = "reputation_change"
                               /\ calls_made[i].peer_id = peer_id
                               /\ calls_made[i].arg = "BadTransactions"}

\* C10, as stated: after the import of a hash failed its entry is gone and
\* every peer that delivered the hash got exactly one BadTransactions report,
\* also a peer that delivered it more than once.
C10_AsClaimed ==
    bad_import.hash # 0 =>
        /\ bad_import.hash \notin DOMAIN transactions_by_peers
        /\ \A p \in ImportPeers :
              Cardinality(BadReports(network, p)) =
                  IF p \in bad_import.forwarders THEN 1 ELSE 0

\* C11: no transaction hash has two imports in flight, and the entry of a
\* hash lists the connected peers that delivered it with a recoverable
\* signer since its import started, in the order of their deliveries: a
\* delivery of a hash that has an entry starts no import and puts the peer
\* at the end.
C11_OneImportPerHash ==
    /\ \A i, j \in DOMAIN pool_imports : pool_imports[i] = pool_imports[j] => i = j
    /\ \A h \in DOMAIN transactions_by_peers : transactions_by_peers[h] = arrived[h]

\* two different peers delivered a hash, one after the other, while its one
\* import is in flight
C11_Witness ==
    \E h \in DOMAIN transactions_by_peers :
        /\ Len(transactions_by_peers[h]) = 2
        /\ transactions_by_peers[h][1] # transactions_by_peers[h][2]
        /\ Cardinality({i \in DOMAIN pool_imports : pool_imports[i] = h}) = 1

\* the hashes of the transactions of msg that recover a signer, or do not
HashesWith(msg, recovered) ==
    {msg[i].hash : i \in {j \in DOMAIN msg : msg[j].recovered = recovered}}
ImportsOf(imports, h) == Cardinality({i \in DOMAIN imports : imports[i] = h})

\* C15: a poll that handles one transactions message of a connected peer
\* reports BadTransactions for that peer exactly once if some transaction of
\* the message recovers no signer and not at all otherwise; every hash that
\* recovers is in the peer's cache and has an entry afterwards, with a new
\* import if it had none; a hash that comes only without a signer changes
\* neither the cache nor the entries nor the imports.
C15_OnePenaltyPerBadMessage ==
    [][\A peer_id \in DOMAIN tm_peers, msg \in UpTo2(IncomingTxs) :
          tm_input' = [NoTmInput EXCEPT !.transaction_events =
                           <<IncomingTransactions(peer_id, msg)>>]
          => /\ peer_id \in DOMAIN tm_peers'
             /\ Cardinality(BadReports(network', peer_id))
                    = IF HashesWith(msg, FALSE) # {} THEN 1 ELSE 0
             /\ Len(network') = Cardinality(BadReports(network', peer_id))
             /\ \A h \in HashesWith(msg, TRUE) :
                    /\ LruContains(tm_peers'[peer_id].transactions, h)
                    /\ h \in DOMAIN transactions_by_peers'
                    /\ ImportsOf(pool_imports', h) = 1
             /\ \A h \in TxHashes \ HashesWith(msg, TRUE) :
                    /\ LruContains(tm_peers'[peer_id].transactions, h)
                           = LruContains(tm_peers[peer_id].transactions, h)
                    /\ (h \in DOMAIN transactions_by_peers')
                           = (h \in DOMAIN transactions_by_peers)
                    /\ ImportsOf(pool_imports', h) = ImportsOf(pool_imports, h)
      ]_vars

\* the last poll handled a message of a connected peer with one transaction
\* that recovers and one, of another hash, that does not: the peer was
\* reported once, the first hash is cached and imported, the other is not
C15_Witness ==
    \E peer_id \in DOMAIN tm_peers, good, bad \in TxHashes :
        /\ good # bad
        /\ tm_input.transaction_events =
               <<IncomingTransactions(peer_id, <<[hash |-> good, recovered |-> TRUE],
                                                [hash |-> bad, recovered |-> FALSE]>>)>>
        /\ Cardinality(BadReports(network, peer_id)) = 1
        /\ LruContains(tm_peers[peer_id].transactions, good)
        /\ ~LruContains(tm_peers[peer_id].transactions, bad)
        /\ pool_imports = <<good>>

Established(events) == SelectSeq(events, LAMBDA e : e.kind = "SessionEstablished")
\* the peers whose last event among events is SessionEstablished
LastEstablished(events) ==
    {events[i].peer_id : i \in {j \in DOMAIN events :
        /\ events[j].kind = "SessionEstablished"
        /\ \A k \in DOMAIN events : k > j => events[k].peer_id # events[j].peer_id}}

\* C16: the peers map holds exactly the peers with a SessionEstablished
\* event and no SessionClosed event since; a poll that handles network
\* events sends, for every SessionEstablished event and in their order, one
\* message to that peer with the hashes the pool returned, and nothing else,
\* and leaves a peer whose last event was SessionEstablished with an empty
\* cache of PEER_TRANSACTION_CACHE_LIMIT entries.
C16_PeersAreEstablishedSessions ==
    /\ DOMAIN tm_peers = tm_sessions
    /\ tm_input.network_events # <<>> =>
          LET est == Established(tm_input.network_events) IN
          /\ Len(network) = Len(est)
          /\ \A i \in DOMAIN est :
                network[i] = [fn |-> "send_message", peer_id |-> est[i].peer_id,
                              arg |-> est[i].pooled]
          /\ \A peer_id \in LastEstablished(tm_input.network_events) :
                /\ peer_id \in DOMAIN tm_peers
                /\ tm_peers[peer_id].transactions = LruNew(PEER_TRANSACTION_CACHE_LIMIT)

\* a peer that had delivered a transaction got a new session while another
\* peer, with a transaction in its cache, kept its own: the first peer got
\* the two hashes of the pool and has an empty cache
C16_Witness ==
    \E peer_id, other \in tm_sessions :
        /\ peer_id # other
        /\ tm_input.network_events = <<SessionEstablishedWith(peer_id, <<2, 1>>)>>
        /\ arrived[1] = <<peer_id, other>>
        /\ tm_peers[other].transactions.inner # <<>>
        /\ tm_peers[peer_id].transactions.inner = <<>>

AllEnded == tm_ended = Streams

\* C17: no poll of the transactions task returns Ready, whatever its sources
\* yield, also when streams have ended and when every handle is dropped; the
\* poll still makes its pass: the imports it found resolved have no entry
\* left.
C17_PollNeverResolves ==
    /\ ~tm_result.ready
    /\ \A i \in DOMAIN tm_input.imports :
          tm_input.imports[i].hash \notin DOMAIN transactions_by_peers

\* every stream has ended and every handle is dropped, and the task was
\* polled after that with an import resolved: it returned Pending
C17_Witness == AllEnded /\ tm_result = Pending /\ tm_input.imports # <<>>

\* the last n elements of seq, all of them if it has fewer
LastOf(seq, n) == SubSeq(seq, Len(seq) - Min(n, Len(seq)) + 1, Len(seq))
Full(c) == Len(c.inner) = c.limit

\* C12: the blocks cache of every active peer has the capacity
\* PEER_BLOCK_CACHE_LIMIT (512) and the transactions cache of every peer
\* PEER_TRANSACTION_CACHE_LIMIT (10240), and no cache holds more entries than
\* its capacity; an insert of a new entry into a full cache drops the entry
\* inserted first among those it holds and keeps the others in order.
C12_CachesBounded ==
    [][/\ \A p \in DOMAIN active_peers' :
             /\ active_peers'[p].blocks.limit = 512
             /\ Len(active_peers'[p].blocks.inner) <= active_peers'[p].blocks.limit
       /\ \A p \in DOMAIN tm_peers' :
             /\ tm_peers'[p].transactions.limit = 10240
             /\ Len(tm_peers'[p].transactions.inner) <= tm_peers'[p].transactions.limit
       /\ Len(lru'.inner) <= lru'.limit
       /\ (lru_last' # lru_last \/ lru' # lru) /\ Full(lru) /\ lru_last'.returned
             => /\ Head(lru.inner) = admitted[Len(admitted) - lru.limit + 1]
                /\ lru'.inner = Append(Tail(lru.inner), lru_last'.entries[1])
      ]_vars

\* a new entry was inserted into the cache when it was full, while a peer of
\* each kind has entries in its cache
C12_Witness ==
    /\ Len(admitted) > lru.limit
    /\ lru_last.returned
    /\ \E p \in DOMAIN active_peers : active_peers[p].blocks.inner # <<>>
    /\ \E p \in DOMAIN tm_peers : tm_peers[p].transactions.inner # <<>>

C14_AsClaimed ==
    \A peer \in CorePeers :
        (peer \in chan_failed) ~> (peer \notin chan_failed /\ peer \notin DOMAIN state_fetcher)

From(msgs, handle) == SelectSeq(msgs, LAMBDA m : m.handle = handle)
IsPrefix(a, b) == Len(a) <= Len(b) /\ a = SubSeq(b, 1, Len(a))

\* C18: while the receiver is alive, what the manager received followed by
\* what is in the channel holds, for every clone of the handle, exactly the
\* messages of the calls made on it, each once and in the order of the
\* calls; once the receiver is dropped nothing is enqueued any more, what
\* the manager received of a clone is a prefix of its calls, and every call
\* returns, for every interleaving of the calls.
C18_EnqueuedOncePerSenderFifo ==
    /\ \A handle \in Handles :
          /\ handle_outcome[handle] \in {"none", "returned"}
          /\ issued[handle] > 0 => handle_outcome[handle] = "returned"
          /\ to_manager.receiver_alive =>
                /\ From(manager_received \o to_manager.queue, handle) = accepted[handle]
                /\ Len(accepted[handle]) = issued[handle]
          /\ IsPrefix(From(manager_received, handle), accepted[handle])
    /\ ~to_manager.receiver_alive => to_manager.queue = <<>>

\* the manager received a message of each clone and was dropped with a
\* third message in the channel; a call made after that returned and
\* enqueued nothing
C18_Witness ==
    /\ ~to_manager.receiver_alive
    /\ Len(manager_received) = 2
    /\ manager_received[1].handle # manager_received[2].handle
    /\ \E handle \in Handles :
          /\ Len(accepted[handle]) = 2
          /\ Len(From(manager_received, handle)) = 1
    /\ \E handle \in Handles :
          /\ Len(accepted[handle]) < issued[handle]
          /\ handle_outcome[handle] = "returned"

Holds(s, sub) ==
    \E i \in 1..(Len(s) - Len(sub) + 1) : SubSeq(s, i, i + Len(sub) - 1) = sub

\* C20, as stated: the text Display writes for any NodeRecord has the
\* discport suffix exactly when the ports differ, and parsing it gives the
\* record. For an IPv6 address Display writes the address without brackets,
\* and the text does not parse.
C20_AsClaimed ==
    stage = "parsed" =>
        /\ Holds(text, <<"?">> \o Discport \o <<"=">> \o Digits(nr.udp_port, 10))
               <=> nr.tcp_port # nr.udp_port
        /\ parsed = [ok |-> TRUE, value |-> nr]

\* no pending response of an active peer resolves in the pass with input in
NoneResolves(in) ==
    \A p \in DOMAIN active_peers :
        \/ active_peers[p].pending_response = NoResponse
        \/ oneshot_poll(active_peers[p].pending_response, in.ready, p) = "Pending"

\* C21: handle_block_request for a peer that is not in active_peers is dropped
\* silently. A poll in which the fetcher yields one request, for a peer that
\* is not active, and nothing else is ready sends nothing, creates no pending
\* response, queues no StateAction, leaves the NetworkState as it was and
\* returns Pending.
C21_RequestForInactivePeerDropped ==
    [][ ( /\ ns_call'.op = "poll"
          /\ Len(ns_call'.in.fetch) = 1
          /\ ns_call'.in.fetch[1].peer_id \notin DOMAIN active_peers
          /\ NoneResolves(ns_call'.in) )
        => /\ active_peers' = active_peers
           /\ queued_messages' = queued_messages
           /\ state_fetcher' = state_fetcher
           /\ calls' = <<>>
           /\ pushed' = <<>>
           /\ poll_result' = Pending ]_vars

\* the fetcher asked for headers of peer 1, whose session is open but which
\* a closed channel made inactive, while peer 2 is active and waits for bodies
C21_Witness ==
    /\ ns_call.op = "poll"
    /\ Len(ns_call.in.fetch) = 1
    /\ ns_call.in.fetch[1] = [peer_id |-> 1, request |-> "BlockHeaders", sent |-> TRUE]
    /\ 1 \in chan_failed
    /\ 1 \in DOMAIN state_fetcher
    /\ DOMAIN active_peers = {2}
    /\ active_peers[2].pending_response = PeerResponse("BlockBodies", "alive")
    /\ calls = <<>>
    /\ poll_result = Pending

\* the PropagatedTransactions handed to the pool by the last step
Propagated(calls_made) ==
    LET i == CHOOSE k \in DOMAIN calls_made : calls_made[k].fn = "pool.on_propagated"
    IN  Range(calls_made[i].arg)
\* the call fn(peer_id, ..) among the calls carried the hash
SentTo(calls_made, fn, peer_id, hash) ==
    \E k \in DOMAIN calls_made :
        /\ calls_made[k].fn = fn
        /\ calls_made[k].peer_id = peer_id
        /\ hash \in Range(calls_made[k].arg)

\* C22: the PropagatedTransactions map returned by propagate_transactions
\* records what was sent: h has an entry Full(p) exactly when the full
\* transaction h was sent to p in this call, and Hash(p) exactly when only its
\* hash was; a peer for which no transaction is new is sent nothing and is in
\* no entry; the peer at index idx that is sent something is sent full
\* transactions exactly when idx <= max_num_full.
C22_PropagatedRecordsWhatWasSent ==
    [][ propagation'.active =>
          LET order == propagation'.order
              max_num_full == isqrt(Len(order)) + 1
          IN  /\ \A h \in TxHashes, peer_id \in TmPeerIds :
                    /\ <<h, <<"Full", peer_id>>>> \in Propagated(network')
                          <=> SentTo(network', "send_transactions", peer_id, h)
                    /\ <<h, <<"Hash", peer_id>>>> \in Propagated(network')
                          <=> SentTo(network', "send_transactions_hashes", peer_id, h)
              /\ \A i \in DOMAIN order :
                    LET peer_id == order[i]
                        idx == i - 1
                        nothing_new == \A k \in DOMAIN propagation'.txs :
                            LruContains(tm_peers[peer_id].transactions, propagation'.txs[k])
                        to_peer == {k \in Sends(network') : network'[k].peer_id = peer_id}
                    IN  IF nothing_new
                        THEN /\ to_peer = {}
                             /\ \A e \in Propagated(network') : e[2][2] # peer_id
                        ELSE /\ Cardinality(to_peer) = 1
                             /\ \A k \in to_peer :
                                   network'[k].fn = "send_transactions"
                                      <=> idx <= max_num_full ]_vars

\* of five peers one knew the transaction and is in no entry, three were sent
\* it in full and one, at index 4 > max_num_full = 3, its hash
C22_Witness ==
    /\ propagation.active
    /\ Len(propagation.order) = 5
    /\ Cardinality({e \in Propagated(network) : e[2][1] = "Full"}) = 3
    /\ Cardinality({e \in Propagated(network) : e[2][1] = "Hash"}) = 1
    /\ network[4].fn = "send_transactions_hashes"
    /\ network[4].peer_id = propagation.order[5]

\* C23: on_session_activated(peer, caps, status, tx) for an inactive peer
\* creates an ActivePeer with best_hash = status.blockhash, no pending
\* response and an empty blocks cache, and registers the peer with the
\* StateFetcher exactly once, with the block number the client resolves for
\* status.blockhash, or 0 when the client does not know the hash or fails.
\* No other peer is touched.
C23_ActivationCreatesPeer ==
    [][ ns_call'.op = "on_session_activated" =>
          LET peer == ns_call'.peer_id
              number == IF ns_call'.answer = "Some" THEN header_number(ns_call'.hash) ELSE 0
          IN  /\ peer \notin DOMAIN active_peers
              /\ DOMAIN active_peers' = DOMAIN active_peers \cup {peer}
              /\ \A q \in DOMAIN active_peers : active_peers'[q] = active_peers[q]
              /\ active_peers'[peer].best_hash = ns_call'.hash
              /\ active_peers'[peer].pending_response = NoResponse
              /\ active_peers'[peer].blocks =
                    [limit |-> PEER_BLOCK_CACHE_LIMIT, inner |-> <<>>]
              /\ calls' = <<<<"new_active_peer", peer, number>>>>
              /\ peer \in DOMAIN state_fetcher'
              /\ state_fetcher'[peer] = number
              /\ queued_messages' = queued_messages ]_vars

\* peer 3 came with a status naming block 2, of which the client failed to
\* give the number, after peer 1, whose block 2 the client knew
C23_Witness ==
    /\ ns_call.op = "on_session_activated"
    /\ ns_call.peer_id = 3
    /\ ns_call.hash = 2
    /\ ns_call.answer = "Err"
    /\ active_peers[3].best_hash = 2
    /\ state_fetcher[3] = 0
    /\ 1 \in DOMAIN active_peers
    /\ state_fetcher[1] = 2

\* the calls that hand a response to the StateFetcher
ResponseCalls(calls_made) ==
    {k \in DOMAIN calls_made :
        calls_made[k][1] \in {"on_block_headers_response", "on_block_bodies_response"}}
\* the peers the actions announce a block or a block hash to
Announced(actions) ==
    {actions[i].peer_id : i \in {j \in DOMAIN actions :
                                    actions[j].kind \in {"NewBlock", "NewBlockHashes"}}}

\* C24: when poll finds that the receiver of a peer's pending response gives
\* Err, the peer is removed from active_peers within that same call of poll,
\* before any response received in that pass is processed: a request that the
\* fetcher makes for the peer in answer to a response of that pass is not
\* sent. From then on no announcement is queued for the peer and no request
\* is sent to it.
C24_ClosedChannelDropsPeerFirst ==
    [][ LET closed == IF ns_call'.op = "poll" THEN ChannelsFoundClosed(ns_call'.in) ELSE {}
        IN  /\ closed \cap DOMAIN active_peers' = {}
            /\ \A k \in DOMAIN calls' :
                  (calls'[k][1] = "try_send" /\ calls'[k][2] \in closed)
                     => \A j \in ResponseCalls(calls') : k < j
            /\ \A peer \in chan_failed \cap chan_failed' :
                  /\ peer \notin DOMAIN active_peers'
                  /\ peer \notin Announced(pushed')
                  /\ \A k \in DOMAIN calls' :
                        calls'[k][1] = "try_send" => calls'[k][2] # peer ]_vars

\* one poll found the channel of peer 1 closed and a response of peer 2,
\* to which the fetcher answered with a request for peer 1: nothing was sent
C24_Witness ==
    /\ ns_call.op = "poll"
    /\ 1 \in chan_failed
    /\ DOMAIN active_peers = {2}
    /\ 1 \in DOMAIN ns_call.in.ready /\ ns_call.in.ready[1] = "Err"
    /\ 2 \in DOMAIN ns_call.in.outcome
    /\ ns_call.in.outcome[2].kind = "Request"
    /\ ns_call.in.outcome[2].peer_id = 1
    /\ ns_call.in.outcome[2].sent
    /\ Len(calls) = 1
    /\ ResponseCalls(calls) = {1}

\* the receivers that follow-up requests for the peer leave with it
FollowUps(in, peer) ==
    {PeerResponse(in.outcome[q].request, IF in.outcome[q].sent THEN "alive" ELSE "dropped") :
        q \in {r \in DOMAIN in.outcome :
                  in.outcome[r].kind = "Request" /\ in.outcome[r].peer_id = peer}}

\* C25: in a pass of poll every active peer with a pending response is polled
\* once. If the receiver is still Pending the peer's pending_response is
\* restored unchanged and nothing is handed to the StateFetcher; if it is
\* Ready(Ok(resp)), resp is handed to the StateFetcher exactly once, by the
\* handler of its kind, and pending_response is None afterwards, so the
\* response cannot be delivered again by a later poll. (A request with which
\* the fetcher follows up a response of the pass leaves its new receiver.)
C25_ResponseDeliveredOnce ==
    [][ (ns_call'.op = "poll" /\ queued_messages = <<>>) =>
          LET in == ns_call'.in
              s2 == drain_fetcher(drain_discovery(NS, in.discovery), in.fetch)
          IN  \A peer \in DOMAIN s2.active_peers :
                LET response == s2.active_peers[peer].pending_response
                    polled == IF response = NoResponse THEN "None"
                              ELSE oneshot_poll(response, in.ready, peer)
                    handed == {k \in ResponseCalls(calls') : calls'[k][2] = peer}
                    after == active_peers'[peer].pending_response
                IN  CASE polled = "Pending" ->
                           /\ handed = {}
                           /\ after \in (IF FollowUps(in, peer) = {} THEN {response}
                                          ELSE FollowUps(in, peer))
                      [] polled = "Ok" ->
                           /\ Cardinality(handed) = 1
                           /\ \A k \in handed :
                                 calls'[k][1] = IF response.kind = "BlockHeaders"
                                                THEN "on_block_headers_response"
                                                ELSE "on_block_bodies_response"
                           /\ after \in (IF FollowUps(in, peer) = {} THEN {NoResponse}
                                          ELSE FollowUps(in, peer))
                      [] polled = "Err" -> handed = {} /\ peer \notin DOMAIN active_peers'
                      [] polled = "None" -> handed = {} ]_vars

\* one pass received the headers of peer 1, of which the fetcher made
\* nothing, and found the bodies of peer 2 still pending
C25_Witness ==
    /\ ns_call.op = "poll"
    /\ DOMAIN ns_call.in.ready = {1, 2}
    /\ ns_call.in.ready[1] = "Ok" /\ ns_call.in.ready[2] = "Pending"
    /\ ns_call.in.outcome[1].kind = "None"
    /\ calls = <<<<"on_block_headers_response", 1, "">>>>
    /\ active_peers[1].pending_response = NoResponse
    /\ active_peers[2].pending_response = PeerResponse("BlockBodies", "alive")

\* C26: handle_block_request for an active peer always stores the new
\* receiver in pending_response, whatever the peer held and whether or not
\* the send into request_tx succeeded. A request of the fetcher that was sent
\* leaves its receiver with the peer; one that was not sent leaves a receiver
\* whose sender is gone, which the same pass finds closed, dropping the peer;
\* a follow-up request leaves its receiver, sent or not. A response handed to
\* the fetcher is of the kind of the receiver the peer holds, so the response
\* to a replaced receiver is never delivered, and a peer holds at most one
\* receiver.
C26_NewReceiverAlwaysStored ==
    [][ (ns_call'.op = "poll" /\ queued_messages = <<>>) =>
          LET in == ns_call'.in
              s2 == drain_fetcher(drain_discovery(NS, in.discovery), in.fetch)
          IN  /\ (Len(in.fetch) = 1 /\ in.fetch[1].peer_id \in DOMAIN active_peers
                     /\ DOMAIN in.outcome = {}) =>
                    LET f == in.fetch[1] IN
                    IF f.sent
                    THEN /\ f.peer_id \in DOMAIN active_peers'
                         /\ active_peers'[f.peer_id].pending_response =
                               PeerResponse(f.request, "alive")
                         /\ calls' = <<<<"try_send", f.peer_id, f.request>>>>
                    ELSE /\ f.peer_id \notin DOMAIN active_peers'
                         /\ calls' = <<>>
              /\ \A peer \in DOMAIN active_peers' :
                    /\ FollowUps(in, peer) # {} =>
                          active_peers'[peer].pending_response \in FollowUps(in, peer)
                    /\ active_peers'[peer].pending_response \in
                          {NoResponse} \cup {PeerResponse(kind, sender) :
                                                kind \in RequestKinds,
                                                sender \in {"alive", "dropped"}}
              /\ \A k \in ResponseCalls(calls') :
                    calls'[k][1] =
                       IF s2.active_peers[calls'[k][2]].pending_response.kind = "BlockHeaders"
                       THEN "on_block_headers_response" ELSE "on_block_bodies_response" ]_vars

\* peer 1 was waiting for headers when the fetcher asked it for bodies: it now
\* waits for bodies
C26_Witness ==
    /\ ns_call.op = "poll"
    /\ ns_call.in.fetch = <<[peer_id |-> 1, request |-> "BlockBodies", sent |-> TRUE]>>
    /\ 1 \in DOMAIN ns_call.held
    /\ ns_call.held[1] = PeerResponse("BlockHeaders", "alive")
    /\ active_peers[1].pending_response = PeerResponse("BlockBodies", "alive")
    /\ calls = <<<<"try_send", 1, "BlockBodies">>>>

\* the dispatch table: what a PeerAction queues and which collaborator it calls
QueuedFor(action) ==
    CASE action.kind = "Connect" -> <<StateAction("Connect", action.peer_id, 0, "")>>
      [] action.kind = "Disconnect" ->
            <<StateAction("Disconnect", action.peer_id, 0, action.reason)>>
      [] action.kind = "DisconnectBannedIncoming" ->
            <<StateAction("Disconnect", action.peer_id, 0, "None")>>
      [] action.kind = "PeerAdded" -> <<StateAction("PeerAdded", action.peer_id, 0, "")>>
      [] action.kind = "PeerRemoved" -> <<StateAction("PeerRemoved", action.peer_id, 0, "")>>
      [] OTHER -> <<>>
CalledFor(action) ==
    CASE action.kind \in {"Disconnect", "DisconnectBannedIncoming"} ->
            <<<<"on_pending_disconnect", action.peer_id, "">>>>
      [] action.kind = "DiscoveryBanPeerId" -> <<<<"ban_discovery", action.peer_id, "">>>>
      [] action.kind = "DiscoveryBanIp" -> <<<<"ban_ip_discovery", action.peer_id, "">>>>
      [] OTHER -> <<>>
RECURSIVE Flatten(_)
Flatten(seqs) == IF seqs = <<>> THEN <<>> ELSE Head(seqs) \o Flatten(Tail(seqs))

\* C27: on_peer_action follows the dispatch table: Connect queues
\* StateAction::Connect; Disconnect and DisconnectBannedIncoming call
\* state_fetcher.on_pending_disconnect and queue StateAction::Disconnect (with
\* reason None for the banned incoming peer); PeerAdded and PeerRemoved queue
\* their StateAction; DiscoveryBanPeerId and DiscoveryBanIp are forwarded to
\* discovery and queue nothing; BanPeer and UnBanPeer change nothing. No
\* PeerAction adds or removes an entry of active_peers.
C27_PeerActionDispatch ==
    [][ (ns_call'.op = "poll" /\ queued_messages = <<>> /\ ns_call'.in.discovery = <<>>) =>
          LET actions == ns_call'.in.peer_actions IN
          /\ pushed' = Flatten([i \in DOMAIN actions |-> QueuedFor(actions[i])])
          /\ calls' = Flatten([i \in DOMAIN actions |-> CalledFor(actions[i])])
          /\ active_peers' = active_peers
          /\ state_fetcher' = state_fetcher ]_vars

\* the peers manager banned the incoming peer 1, which is active, and removed
\* it: the fetcher was told once, two actions were queued, the first handed
\* out, and peer 1 is still active
C27_Witness ==
    /\ ns_call.op = "poll"
    /\ Len(ns_call.in.peer_actions) = 2
    /\ ns_call.in.peer_actions[1].kind = "DisconnectBannedIncoming"
    /\ ns_call.in.peer_actions[2].kind = "PeerRemoved"
    /\ calls = <<<<"on_pending_disconnect", DispatchPeer, "">>>>
    /\ poll_result = Ready(StateAction("Disconnect", DispatchPeer, 0, "None"))
    /\ queued_messages = <<StateAction("PeerRemoved", DispatchPeer, 0, "")>>
    /\ DispatchPeer \in DOMAIN active_peers

\* C30: a call of poll whose sources yield finitely many ready items
\* returns: with the head of queued_messages, in its first iteration and
\* without polling a source, if the queue is not empty on entry; with the
\* first action the pass queued, in its second iteration, if the queue is
\* empty on entry and the pass over the sources queues something; with
\* Pending, after one full pass, only if the queue is empty after the pass.
\* It never makes more than two iterations of its outer loop.
C30_PollReturnsWithinTwoIterations ==
    [][ ns_call'.op = "poll" =>
          /\ ns_call'.iterations \in {1, 2}
          /\ IF queued_messages # <<>>
             THEN /\ poll_result' = Ready(Head(queued_messages))
                  /\ queued_messages' = Tail(queued_messages)
                  /\ ns_call'.iterations = 1
                  /\ pushed' = <<>> /\ calls' = <<>>
             ELSE IF pushed' # <<>>
             THEN /\ poll_result' = Ready(Head(pushed'))
                  /\ queued_messages' = Tail(pushed')
                  /\ ns_call'.iterations = 2
             ELSE /\ poll_result' = Pending
                  /\ queued_messages' = <<>>
                  /\ ns_call'.iterations = 1 ]_vars

\* a pass in which discovery and the peers manager yielded three items queued
\* three actions; poll handed out the first in its second iteration
C30_Witness ==
    /\ ns_call.op = "poll"
    /\ ns_call.iterations = 2
    /\ Len(ns_call.in.discovery) = 1
    /\ Len(ns_call.in.peer_actions) = 2
    /\ Len(pushed) = 3
    /\ poll_result = Ready(pushed[1])
    /\ poll_result.msg.kind = "DiscoveredEnrForkId"
    /\ queued_messages = Tail(pushed)

\* C28: announce_new_block_hash leaves the blocks cache of every peer as it
\* was, and announces to every active peer whose cache lacks the hash; so a
\* second announce_new_block_hash(H) right after the first, with no report of
\* a peer in between, queues a NewBlockHashes action for H for the same peers.
C28_HashAnnouncementRepeats ==
    [][ ns_call'.op = "announce_new_block_hash" =>
          /\ DOMAIN active_peers' = DOMAIN active_peers
          /\ \A peer \in DOMAIN active_peers :
                active_peers'[peer].blocks = active_peers[peer].blocks
          /\ KindsOf(pushed') \subseteq {"NewBlockHashes"}
          /\ HashesOf(pushed') \subseteq {ns_call'.hash}
          /\ PeersOf(pushed') = Lacking(NS, ns_call'.hash)
          /\ (ns_call.op = "announce_new_block_hash" /\ ns_call.hash = ns_call'.hash)
                => PeersOf(pushed') = PeersOf(pushed) ]_vars

\* the hash was announced twice in a row: the peer lacking the block is the
\* target of two equal actions in the queue, the peer that reported it of none
C28_Witness ==
    /\ ns_call.op = "announce_new_block_hash"
    /\ Cardinality(DOMAIN active_peers) = 2
    /\ Len(queued_messages) = 2
    /\ queued_messages[1] = queued_messages[2]
    /\ queued_messages[1].kind = "NewBlockHashes"
    /\ pushed = <<queued_messages[2]>>
    /\ \E peer \in DOMAIN active_peers :
          LruContains(active_peers[peer].blocks, ns_call.hash)

\* C29: the best_hash of a peer changes only as follows. announce_new_block
\* and announce_new_block_hash set it to the announced hash for a peer they
\* queue an action for, exactly when state_fetcher.update_peer_block returns
\* true for that peer, and leave it otherwise; update_peer_block sets it to
\* the given hash for an active peer whatever the fetcher returns, and
\* forwards the update to the fetcher also when the peer is not active. No
\* other step changes it.
C29_BestHashChanges ==
    [][ /\ \A peer \in DOMAIN active_peers \cap DOMAIN active_peers' :
              LET old == active_peers[peer].best_hash
                  new == active_peers'[peer].best_hash
                  hash == ns_call'.hash
                  returns == fetcher_update_returns(state_fetcher, peer, header_number(hash))
              IN  CASE ns_call'.op \in {"announce_new_block", "announce_new_block_hash"} ->
                         new = IF peer \in Announced(pushed') /\ returns THEN hash ELSE old
                    [] ns_call'.op = "update_peer_block" ->
                         new = IF peer = ns_call'.peer_id THEN hash ELSE old
                    [] OTHER -> new = old
        /\ ns_call'.op = "update_peer_block" =>
              /\ DOMAIN active_peers' = DOMAIN active_peers
              /\ state_fetcher' = fetcher_update_peer_block(state_fetcher, ns_call'.peer_id,
                                                            header_number(ns_call'.hash)) ]_vars

\* update_peer_block gave peer 1, whose block the fetcher knows as number 2,
\* block 1 as its best; peer 2 is known to the fetcher but no longer active
C29_Witness ==
    /\ ns_call.op = "update_peer_block"
    /\ ns_call.peer_id = 1 /\ ns_call.hash = 1
    /\ DOMAIN active_peers = {1}
    /\ active_peers[1].best_hash = 1
    /\ DOMAIN state_fetcher = {1, 2}
    /\ state_fetcher[1] = 2

\* the calls of the function fn about the peer
CallsOf(calls_made, fn, peer) ==
    {k \in DOMAIN calls_made : calls_made[k][1] = fn /\ calls_made[k][2] = peer}

\* C31: when the StateFetcher classifies a response, on_block_response_outcome
\* does exactly one thing. In a pass of poll in which only responses are
\* ready, the peers manager gets one apply_reputation_change for a peer per
\* BadResponse about it, a session gets one request per Request outcome for
\* its peer that handle_block_request could send, and nothing else is called
\* beside the hand-over of each response to the fetcher; no StateAction is
\* queued, poll returns Pending, and no peer leaves active_peers but those
\* whose channel the pass found closed.
C31_OutcomeDoesOneThing ==
    [][ ( /\ ns_call'.op = "poll" /\ queued_messages = <<>>
          /\ ns_call'.in.fetch = <<>> /\ ns_call'.in.discovery = <<>>
          /\ ns_call'.in.peer_actions = <<>> ) =>
          LET in == ns_call'.in
              closed == ChannelsFoundClosed(in)
              Verdicts(kind, peer) ==
                  {q \in DOMAIN in.outcome :
                      in.outcome[q].kind = kind /\ in.outcome[q].peer_id = peer}
              Sendable(peer) ==
                  {q \in Verdicts("Request", peer) :
                      in.outcome[q].sent /\ peer \in DOMAIN active_peers \ closed}
          IN  /\ \A peer \in PeerIds :
                    /\ Cardinality(CallsOf(calls', "apply_reputation_change", peer))
                          = Cardinality(Verdicts("BadResponse", peer))
                    /\ Cardinality(CallsOf(calls', "try_send", peer))
                          = Cardinality(Sendable(peer))
                    /\ (Verdicts("Request", peer) # {} /\ peer \in DOMAIN active_peers')
                          => active_peers'[peer].pending_response \in FollowUps(in, peer)
              /\ Cardinality(ResponseCalls(calls')) = Cardinality(DOMAIN in.outcome)
              /\ Len(calls') = Cardinality(DOMAIN in.outcome)
                                 + Cardinality({q \in DOMAIN in.outcome :
                                                   in.outcome[q].kind = "BadResponse"})
                                 + Cardinality(UNION {Sendable(peer) : peer \in PeerIds})
              /\ pushed' = <<>>
              /\ queued_messages' = <<>>
              /\ poll_result' = Pending
              /\ DOMAIN active_peers' = DOMAIN active_peers \ closed ]_vars

\* one pass received the response of peer 1, which the fetcher found bad, and
\* the response of peer 2, which the fetcher followed up with a request for
\* bodies to peer 2: both peers stay active and nothing is queued
C31_Witness ==
    /\ ns_call.op = "poll"
    /\ DOMAIN ns_call.in.outcome = {1, 2}
    /\ ns_call.in.outcome[1].kind = "BadResponse" /\ ns_call.in.outcome[1].peer_id = 1
    /\ ns_call.in.outcome[2] =
          [kind |-> "Request", peer_id |-> 2, request |-> "BlockBodies", sent |-> TRUE]
    /\ Len(calls) = 4
    /\ Cardinality(CallsOf(calls, "apply_reputation_change", 1)) = 1
    /\ Cardinality(CallsOf(calls, "try_send", 2)) = 1
    /\ DOMAIN active_peers = {1, 2}
    /\ active_peers[1].pending_response = NoResponse
    /\ active_peers[2].pending_response = PeerResponse("BlockBodies", "alive")
    /\ queued_messages = <<>>

C36_ChannelFailureTouchesOnlyActivePeers ==
    [][ (ns_call'.op = "poll" /\ ChannelsFoundClosed(ns_call'.in) # {}) =>
          LET in == ns_call'.in
              closed == ChannelsFoundClosed(in)
          IN  /\ state_fetcher' = state_fetcher
              /\ closed \subseteq DOMAIN state_fetcher'
              /\ closed \cap DOMAIN active_peers' = {}
              /\ DOMAIN state_fetcher' # DOMAIN active_peers'
              /\ \A k \in DOMAIN calls' :
                    calls'[k][1] \notin {"on_session_closed", "on_pending_disconnect"}
              /\ \A i \in DOMAIN pushed' : pushed'[i].kind # "Disconnect"
              /\ sessions' = sessions
              /\ (in.fetch = <<>> /\ DOMAIN in.outcome = {}) =>
                    /\ active_peers' = [p \in DOMAIN active_peers \ closed |-> active_peers[p]]
                    /\ queued_messages' = queued_messages
                    /\ calls' = <<>>
                    /\ pushed' = <<>>
                    /\ poll_result' = Pending ]_vars

\* the response channel of peer 1 gave Err while peer 2 waits for headers:
\* peer 1 left active_peers, the fetcher lists both peers and heard nothing
C36_Witness ==
    /\ ns_call.op = "poll"
    /\ 1 \in DOMAIN ns_call.in.ready /\ ns_call.in.ready[1] = "Err"
    /\ DOMAIN ns_call.in.outcome = {}
    /\ DOMAIN active_peers = {2}
    /\ active_peers[2].pending_response = PeerResponse("BlockHeaders", "alive")
    /\ DOMAIN state_fetcher = {1, 2}
    /\ 1 \in sessions
    /\ calls = <<>>
    /\ queued_messages = <<>>

\* the one transaction event of the poll that was just made, if it had one
\* and nothing else
OnlyEvent(in) ==
    IF in = [Idle EXCEPT !.transaction_events = in.transaction_events, !.ended = in.ended]
       /\ Len(in.transaction_events) = 1
    THEN in.transaction_events[1]
    ELSE [kind |-> "none", peer_id |-> 0]
\* the calls of the function fn in the log
CallsTo(log, fn) == SelectSeq(log, LAMBDA c : c.fn = fn)
\* the two sequences hold the same items as often, in whatever order (every
\* poll takes the requests in flight out of the list and puts those still
\* pending back, which changes their order)
Count(seq, x) == Len(SelectSeq(seq, LAMBDA y : y = x))
SameItems(a, b) == \A x \in Range(a) \cup Range(b) : Count(a, x) = Count(b, x)

\* C32: on an inbound NewPooledTransactionHashes from a connected peer every
\* announced hash is in the peer's cache afterwards, also the hashes the pool
\* knows. A GetPooledTransactions request goes to that peer only if the pool
\* lacks one of the hashes, and it asks for exactly the hashes the pool lacks;
\* the request is added to inflight_requests if and only if the send into
\* request_tx succeeded, and nothing else changes.
C32_PooledHashesRequested ==
    [][ LET e == OnlyEvent(tm_input') IN
        (e.kind = "IncomingPooledTransactionHashes" /\ e.peer_id \in DOMAIN tm_peers) =>
          LET lacking == {h \in Range(e.msg) : h \notin e.pool}
              sends == CallsTo(network', "request_tx.try_send")
          IN  /\ DOMAIN tm_peers' = DOMAIN tm_peers
              /\ \A h \in Range(e.msg) : LruContains(tm_peers'[e.peer_id].transactions, h)
              /\ \A p \in DOMAIN tm_peers : p # e.peer_id => tm_peers'[p] = tm_peers[p]
              /\ network' = sends
              /\ IF lacking # {} /\ e.sent
                 THEN /\ Len(sends) = 1
                      /\ sends[1].peer_id = e.peer_id
                      /\ Range(sends[1].arg) = lacking
                      /\ SameItems(inflight_requests',
                                   Append(inflight_requests,
                                          [peer_id |-> e.peer_id, request |-> sends[1].arg]))
                 ELSE /\ sends = <<>>
                      /\ SameItems(inflight_requests', inflight_requests)
              /\ UNCHANGED <<transactions_by_peers, pool_imports>> ]_vars

\* the connected peer announced hashes 2 and 1 of which the pool knows 1: both
\* are in its cache and the request for hash 2, which its session took, is
\* tracked
C32_Witness ==
    /\ OnlyEvent(tm_input) = IncomingPooledTransactionHashes(PooledPeer, <<2, 1>>, {1}, TRUE)
    /\ PooledPeer \in DOMAIN tm_peers
    /\ LruContains(tm_peers[PooledPeer].transactions, 1)
    /\ LruContains(tm_peers[PooledPeer].transactions, 2)
    /\ network = <<[fn |-> "request_tx.try_send", peer_id |-> PooledPeer, arg |-> <<2>>]>>
    /\ Len(inflight_requests) = 2
    /\ Count(inflight_requests, [peer_id |-> PooledPeer, request |-> <<2>>]) = 1

\* C33, as stated: every inbound GetPooledTransactions event is answered with
\* Ok(PooledTransactions) holding the pool's transactions for the requested
\* hashes. The event of a peer that is not in the peers map is dropped with
\* its one-shot sender: nothing is sent on it.
C33_AsClaimed ==
    [][ LET e == OnlyEvent(tm_input') IN
        e.kind = "GetPooledTransactions" =>
           /\ Len(CallsTo(network', "response.send")) = 1
           /\ CallsTo(network', "response.send")[1].arg = get_all(e.pool, e.request) ]_vars

\* C40: a transaction event attributed to a peer that is not in the peers map
\* leaves the TransactionsManager as it was (the requests in flight are the
\* same, in the order the poll leaves them in) and makes it call nobody:
\* IncomingTransactions starts no import and reports no bad message even when
\* a transaction recovers no signer, IncomingPooledTransactionHashes tracks and
\* sends no request, GetPooledTransactions touches no cache (and sends no
\* response).
C40_EventsOfStrangersIgnored ==
    [][ LET e == OnlyEvent(tm_input') IN
        (e.kind \in {"IncomingTransactions", "IncomingPooledTransactionHashes",
                     "GetPooledTransactions"}
           /\ e.peer_id \notin DOMAIN tm_peers) =>
          /\ UNCHANGED <<tm_peers, transactions_by_peers, pool_imports>>
          /\ SameItems(inflight_requests', inflight_requests)
          /\ network' = <<>>
          /\ tm_result' = Pending ]_vars

\* the peer without a session delivered a transaction and one whose signer
\* does not recover while the other peer is connected and a request is in
\* flight: no import, no report
C40_Witness ==
    /\ OnlyEvent(tm_input).kind = "IncomingTransactions"
    /\ OnlyEvent(tm_input).peer_id \notin DOMAIN tm_peers
    /\ Len(OnlyEvent(tm_input).msg) = 2
    /\ PooledPeer \in DOMAIN tm_peers
    /\ inflight_requests # <<>>
    /\ pool_imports = <<>>
    /\ transactions_by_peers = EmptyMap
    /\ network = <<>>

\* the items of the sequence at the positions (counted from 0), the highest
\* position first
RECURSIVE Downwards(_, _)
Downwards(seq, positions) ==
    IF positions = {} THEN <<>>
    ELSE LET top == CHOOSE i \in positions : \A j \in positions : j <= i
         IN  <<seq[top + 1]>> \o Downwards(seq, positions \ {top})

\* C34: for each request in flight the manager acts once when its receiver
\* resolves. In a poll in which only responses are ready, a request whose
\* receiver gives Ok(Ok(txs)) has its transactions imported for the requesting
\* peer (the peer is recorded for the hash, after the peers recorded before and
\* in the order the loop polls, and the import starts if none was in flight);
\* a request whose receiver gives a request error or is closed earns its peer
\* one BadTransactions report; nothing else is called. Exactly the requests
\* whose receiver is still pending are in inflight_requests afterwards.
C34_ResolvedRequestsActedOnOnce ==
    [][ LET in == tm_input' IN
        (in = [Idle EXCEPT !.responses = in.responses, !.ended = in.ended]
           /\ inflight_requests # <<>>
           /\ DOMAIN in.responses = 0..(Len(inflight_requests) - 1)) =>
          LET At(kinds) == {i \in DOMAIN in.responses : in.responses[i].kind \in kinds}
              failed == At({"RequestError", "Closed"})
              answered == {i \in At({"Ok"}) :
                              inflight_requests[i + 1].peer_id \in DOMAIN tm_peers}
              importers == [i \in DOMAIN Downwards(inflight_requests, answered) |->
                               Downwards(inflight_requests, answered)[i].peer_id]
              before == IF 1 \in DOMAIN transactions_by_peers
                        THEN transactions_by_peers[1] ELSE <<>>
          IN  /\ \A k \in DOMAIN network' :
                    /\ network'[k].fn = "reputation_change"
                    /\ network'[k].arg = "BadTransactions"
              /\ \A p \in TmPeerIds :
                    Len(SelectSeq(network', LAMBDA call : call.peer_id = p))
                       = Cardinality({i \in failed : inflight_requests[i + 1].peer_id = p})
              /\ \A x \in Range(inflight_requests) :
                    Count(inflight_requests', x)
                       = Cardinality({i \in At({"Pending"}) : inflight_requests[i + 1] = x})
              /\ Len(inflight_requests') = Cardinality(At({"Pending"}))
              /\ IF answered = {}
                 THEN UNCHANGED <<transactions_by_peers, pool_imports, tm_peers>>
                 ELSE /\ transactions_by_peers'[1] = before \o importers
                      /\ pool_imports' = IF before = <<>> THEN Append(pool_imports, 1)
                                         ELSE pool_imports
                      /\ \A i \in answered :
                            LruContains(tm_peers'[inflight_requests[i + 1].peer_id].transactions, 1)
              /\ tm_result' = Pending ]_vars

\* of three requests one was answered with the transaction, one with a
\* request error and the channel of one was closed: the import is in flight
\* for the one peer, two reports were made, and no request is left
C34_Witness ==
    /\ DOMAIN tm_input.responses = 0..2
    /\ tm_input.responses[0].kind = "Closed"
    /\ tm_input.responses[1].kind = "Ok"
    /\ tm_input.responses[2].kind = "RequestError"
    /\ inflight_requests = <<>>
    /\ Len(network) = 2
    /\ 1 \in DOMAIN transactions_by_peers
    /\ Len(transactions_by_peers[1]) = 1
    /\ pool_imports = <<1>>

\* C38: the loop over (0..inflight_requests.len()).rev() that takes each
\* request out with swap_remove and pushes it back while its receiver is
\* pending never indexes out of bounds, polls the receiver of every request
\* that was in the list when the loop started exactly once, and leaves in the
\* list exactly the requests whose receiver gave Pending, each once, for
\* every combination of pending and resolved requests.
C38_AdvanceLoopPollsEachOnce ==
    [][ \E in \in {tm_input'} :
        \E s3 \in {drain_transaction_events(
                       drain_commands(drain_network_events(TS, in.network_events),
                                      in.commands), in.transaction_events)} :
        \E started \in {Held(s3.inflight_requests)} :
        \E run \in {advance_requests([s3 EXCEPT !.inflight_requests = started],
                                     Len(started) - 1, in.responses)} :
        LET n == Len(started)
            pending == {i \in 0..(n - 1) :
                           i \in DOMAIN in.responses => in.responses[i].kind = "Pending"}
        IN  /\ ~run.panicked
            /\ Len(run.polled) = n
            /\ Range(run.polled) = 0..(n - 1)
            /\ Len(run.inflight_requests) = Cardinality(pending)
            /\ {run.inflight_requests[k].pos : k \in DOMAIN run.inflight_requests} = pending
            /\ \A k \in DOMAIN run.inflight_requests :
                  run.inflight_requests[k] = started[run.inflight_requests[k].pos + 1]
            /\ inflight_requests' = Requests(run.inflight_requests) ]_vars

\* of three requests the first and the last are still pending and the one
\* between them failed: the two of different peers are left
C38_Witness ==
    /\ DOMAIN tm_input.responses = 0..2
    /\ tm_input.responses[0].kind = "Pending"
    /\ tm_input.responses[1].kind = "Closed"
    /\ tm_input.responses[2].kind = "Pending"
    /\ Len(inflight_requests) = 2
    /\ inflight_requests[1].peer_id # inflight_requests[2].peer_id
    /\ Len(network) = 1

\* the hashes of the transactions of the message that recover a signer
RecoveredOf(msg) == {msg[i].hash : i \in {k \in DOMAIN msg : msg[k].recovered}}

\* the calls on the NetworkHandle that name the peer
CallsAbout(log, peer_id) == {k \in DOMAIN log : log[k].peer_id = peer_id}

\* C37: one call of poll handles the network events, then the commands, then
\* the transaction events.  When the same call finds SessionClosed of a peer
\* and a transactions message of that peer, the peer is gone before the
\* message is handled and the message is discarded: nothing is imported and
\* no penalty is reported, whatever the message holds.  When it finds
\* SessionEstablished and a message of that peer, the message is handled
\* against the Peer just created: its transactions are imported, its cache
\* holds their hashes and a malformed one is reported.  A command of the same
\* call sends to a peer established in it and not to one closed in it, and
\* sends a hash to a peer whose message of the same call carries that hash.
C37_EventsThenCommandsThenMessages ==
    [][ LET in == tm_input'
            ne == in.network_events
            cs == in.commands
            te == in.transaction_events
            sent == IF cs = <<>> THEN {} ELSE Range(cs[1].txs)
        IN  /\ in.responses = <<>> /\ in.imports = <<>> /\ in.new_txs = <<>>
            /\ Len(ne) <= 1 /\ Len(cs) <= 1 /\ Len(te) <= 1
            =>
            /\ \* SessionClosed, then a message of the peer
               (ne # <<>> /\ te # <<>> /\ ne[1].kind = "SessionClosed"
                    /\ te[1].peer_id = ne[1].peer_id)
               => /\ ne[1].peer_id \notin DOMAIN tm_peers'
                  /\ UNCHANGED <<transactions_by_peers, pool_imports, inflight_requests>>
                  /\ CallsAbout(network', ne[1].peer_id) = {}
            /\ \* SessionEstablished, then a message of the peer
               (ne # <<>> /\ te # <<>> /\ ne[1].kind = "SessionEstablished"
                    /\ te[1].peer_id = ne[1].peer_id)
               => LET p == ne[1].peer_id
                      msg == te[1].msg
                  IN  /\ p \in DOMAIN tm_peers'
                      /\ Range(tm_peers'[p].transactions.inner) = RecoveredOf(msg) \cup sent
                      /\ \A h \in RecoveredOf(msg) :
                            /\ h \in DOMAIN transactions_by_peers'
                            /\ Count(transactions_by_peers'[h], p)
                                 = 1 + (IF h \in DOMAIN transactions_by_peers
                                        THEN Count(transactions_by_peers[h], p) ELSE 0)
                      /\ Cardinality(BadReports(network', p))
                           = IF \E i \in DOMAIN msg : ~msg[i].recovered THEN 1 ELSE 0
            /\ \* a network event, then a command
               (ne # <<>> /\ cs # <<>>)
               => LET p == ne[1].peer_id
                  IN  /\ ne[1].kind = "SessionEstablished"
                         => \E k \in Sends(network') :
                               /\ network'[k].peer_id = p
                               /\ network'[k].arg = cs[1].txs
                               /\ \E j \in 1..(k - 1) : /\ network'[j].fn = "send_message"
                                                        /\ network'[j].peer_id = p
                      /\ ne[1].kind = "SessionClosed"
                         => \A k \in Sends(network') : network'[k].peer_id # p
            /\ \* a command, then a message
               (cs # <<>> /\ te # <<>> /\ te[1].peer_id \in DOMAIN tm_peers')
               => LET p == te[1].peer_id
                  IN  \A h \in sent :
                         (ne = <<>> /\ ~LruContains(tm_peers[p].transactions, h))
                         => \E k \in Sends(network') : /\ network'[k].peer_id = p
                                                       /\ h \in Range(network'[k].arg) ]_vars

\* one call found the close of the session of a peer that was connected and
\* a message of that peer with a malformed transaction: the peer is gone,
\* nothing was reported and no import was started
C37_Witness ==
    /\ Len(tm_input.network_events) = 1
    /\ tm_input.network_events[1].kind = "SessionClosed"
    /\ Len(tm_input.transaction_events) = 1
    /\ tm_input.transaction_events[1].peer_id = tm_input.network_events[1].peer_id
    /\ \E i \in DOMAIN tm_input.transaction_events[1].msg :
          ~tm_input.transaction_events[1].msg[i].recovered
    /\ tm_input.commands = <<>>
    /\ tm_input.network_events[1].peer_id \notin DOMAIN tm_peers
    /\ network = <<>>
    /\ pool_imports = <<>>
    /\ DOMAIN tm_peers # {}

\* C39: the hashes on_network_event announces to a peer in the
\* NewPooledTransactionHashes message of SessionEstablished are not put in
\* the peer's cache: after a poll that found only the establishment the peer
\* has an empty cache although the message with the hashes was sent.  A
\* later propagate_transactions for a hash that was announced to the peer
\* and is not in its cache sends the hash to the peer again.
C39_AnnouncedHashesSentAgain ==
    [][ LET in == tm_input' IN
        /\ \* the establishment alone
           (Len(in.network_events) = 1 /\ in.network_events[1].kind = "SessionEstablished"
                /\ in.commands = <<>> /\ in.transaction_events = <<>>)
           => LET p == in.network_events[1].peer_id
                  pooled == in.network_events[1].pooled
              IN  /\ p \in DOMAIN tm_peers'
                  /\ tm_peers'[p].transactions.inner = <<>>
                  /\ announced'[p] = Range(pooled)
                  /\ \E k \in DOMAIN network' : /\ network'[k].fn = "send_message"
                                                /\ network'[k].peer_id = p
                                                /\ network'[k].arg = pooled
        /\ \* the pool yields new transactions
           in.new_txs # <<>>
           => \A p \in DOMAIN tm_peers :
                 \A h \in announced[p] \cap Range(in.txs) :
                    ~LruContains(tm_peers[p].transactions, h)
                    => /\ \E k \in Sends(network') : /\ network'[k].peer_id = p
                                                     /\ h \in Range(network'[k].arg)
                       /\ LruContains(tm_peers'[p].transactions, h) ]_vars

\* hash 1 was announced to the peer when its session was established, and the
\* poll that found it as a new transaction of the pool sent it to that peer
C39_Witness ==
    /\ tm_input.new_txs = <<1>>
    /\ tm_input.network_events = <<>>
    /\ PooledPeer \in DOMAIN tm_peers
    /\ 1 \in announced[PooledPeer]
    /\ \E k \in Sends(network) : /\ network[k].peer_id = PooledPeer
                                 /\ network[k].arg = <<1>>







====
